---- MODULE Spec2Model ----
(***************************************************************************)
(* Backtesting engine: the Portfolio, the Trading Action Executor          *)
(* (utils/trading_actions.py) and the Engine's per-day expiration handling *)
(* (utils/simulation.py).                                                  *)
(*                                                                         *)
(* The Executor of utils/trading_actions.py has eight operations;         *)
(* utils/simulation.py carries its own copy of four of them (buy_stock,    *)
(* sell_stock, sell_call, sell_put) with the same code, and it is that     *)
(* copy whose log the Engine sets and whose buy_stock / sell_stock the     *)
(* expiration handling calls.  Here the operations are modelled once and   *)
(* the class attributes _transaction_log / _current_date are one pair.     *)
(*                                                                         *)
(* Spec drives the Executor day by day with arbitrary prices.  SpecRun is  *)
(* BacktestSimulation.run() over loaded market data with a callback that   *)
(* makes Executor calls of its choice and returns; SpecHold is run() with  *)
(* the buy-and-hold callback and SpecCall with the covered-call callback.   *)
(* SpecConfig starts before the constructor, runs buy-and-hold over the    *)
(* configuration given and lets the caller ask for the statistics.         *)
(* SpecPricer applies the Black-Scholes pricer of utils/black_scholes.py,  *)
(* by the class of d1 where an argument is 0 and over a table of norm.cdf  *)
(* where all are positive.  SpecLeap and SpecWheel are run() with the LEAP *)
(* and the wheel callbacks, SpecMA with the four moving-average callbacks  *)
(* of strategies/moving_average_strategy.py.  SpecCover is the Executor's  *)
(* stock and sell_call operations over a longer log, and SpecTwo steps two *)
(* simulations that share the Executor's class attributes.                 *)
(*                                                                         *)
(* Money and share amounts are integers.  The average cost of a Position   *)
(* is the one quantity the code computes by a division; it is kept as an   *)
(* exact fraction [num, den] in lowest terms (the real-number reading of   *)
(* the Python float).                                                      *)
(***************************************************************************)
EXTENDS Integers, Sequences, FiniteSets, TLC

\* ------------------------------------------------------------------ bounds
\* Executor calls are made while the log holds fewer than MaxLog records
MaxLog == 2
\* options are opened while fewer than MaxOptions contracts are open
MaxOptions == 2

\* ------------------------------------------------------- program constants
\* one option contract stands for 100 shares
ContractSize == 100

\* ------------------------------------------------------------- input sets
Tickers == {"A", "B"}
\* the calendar: the trading dates of the run, in order
TradingDates == {1, 2}
InitialCashes == {0, 300}
ShareCounts == {100, 200}
Prices == {1, 2}
\* the contracts the Strategy trades: (ticker, strike, expiration date)
OptionChain ==
    {[ticker |-> "A", strike |-> 1, expiration |-> 2],
     [ticker |-> "A", strike |-> 2, expiration |-> 2],
     [ticker |-> "A", strike |-> 1, expiration |-> 3],
     [ticker |-> "B", strike |-> 1, expiration |-> 2]}
ContractCounts == {1, 2}
Premiums == {1}
\* a day's close prices; 0 is what prices.get(ticker, 0) yields for a ticker
\* without a price
ClosePrices == {0, 1, 2}

VARIABLES
    cash,             \* Portfolio.cash
    positions,        \* Portfolio.positions : ticker -> Position
    options,          \* Portfolio.options : list of OptionContract
    transactions,     \* BacktestSimulation.transactions
    transaction_log,  \* TradingAction._transaction_log : "None" or "transactions"
    current_date,     \* TradingAction._current_date (0 = None)
    day,              \* index of the trading date the Engine is processing
    last,             \* the last Executor call and the boolean it returned
    market_data,      \* BacktestSimulation.market_data : ticker -> price frame
    volatility_data,  \* BacktestSimulation.volatility_data : ticker -> series
    strategy_callback,\* BacktestSimulation.strategy_callback
    pc,               \* where run() stands
    prices,           \* current_prices of the day being processed
    history,          \* BacktestSimulation.history
    config,           \* the arguments of BacktestSimulation(...): tickers, dates, cash
    instances         \* the simulations stepped side by side (none when one runs alone)

\* what a run of the Engine adds to the portfolio, the log and the Executor
run_vars == <<market_data, volatility_data, strategy_callback, pc, prices, history, config, instances>>

vars == <<cash, positions, options, transactions, transaction_log, current_date, day, last,
          market_data, volatility_data, strategy_callback, pc, prices, history, config, instances>>

\* ---------------------------------------------------------------- helpers
RECURSIVE GCD(_, _)
GCD(a, b) == IF b = 0 THEN a ELSE GCD(b, a % b)

\* the fraction n/d (n >= 0, d > 0) in lowest terms
Frac(n, d) == LET g == GCD(n, d) IN [num |-> n \div g, den |-> d \div g]

\* Position(ticker, shares, avg_cost)
Position(ticker, shares, avg_cost) ==
    [ticker |-> ticker, shares |-> shares, avg_cost |-> avg_cost]

\* OptionContract(...)
OptionContract(ticker, strike, expiration_date, option_type, contracts, premium_received, position) ==
    [ticker |-> ticker, strike |-> strike, expiration_date |-> expiration_date,
     option_type |-> option_type, contracts |-> contracts,
     premium_received |-> premium_received, position |-> position]

\* the state an Executor operation works on: the portfolio passed to it, the
\* class attributes of TradingAction and the list _transaction_log refers to
St == [cash |-> cash, positions |-> positions, options |-> options, log |-> transactions,
       transaction_log |-> transaction_log, current_date |-> current_date]

\* a variant of LogAppend that puts the record at the head of the log
LogAppend_at_head(st, rec) ==
    IF st.transaction_log = "None" THEN st.log ELSE <<rec>> \o st.log

\* mutant of LogAppend: the record is never appended
LogAppend_never(st, rec) == st.log

\* "if TradingAction._transaction_log is not None: _transaction_log.append(rec)"
LogAppend(st, rec) == IF st.transaction_log # "None" THEN Append(st.log, rec) ELSE st.log

\* del d[k]
DictDel(d, k) == [t \in (DOMAIN d) \ {k} |-> d[t]]

\* d[k] = v
DictSet(d, k, v) == [t \in (DOMAIN d) \cup {k} |-> IF t = k THEN v ELSE d[t]]

\* d.get(k, default)
DictGet(d, k, default) == IF k \in DOMAIN d THEN d[k] ELSE default

\* list.pop(i), 1-based
Pop(s, i) == [j \in 1..(Len(s) - 1) |-> IF j < i THEN s[j] ELSE s[j + 1]]

\* --------------------------------------------- Trading Action Executor
\* Every operation maps the state it is called on to the boolean it returns
\* and the state it leaves.
Result(ok, st) == [ok |-> ok, st |-> st]

StockRecord(date, action, ticker, shares, price, total) ==
    [date |-> date, action |-> action, ticker |-> ticker,
     shares |-> shares, price |-> price, total |-> total]

OptionRecord(date, action, ticker, contracts, strike, premium, total_premium, expiration) ==
    [date |-> date, action |-> action, ticker |-> ticker,
     contracts |-> contracts, strike |-> strike, premium_per_share |-> premium,
     total_premium |-> total_premium, expiration |-> expiration]

\* mutant of WeightedAvg: the sum is divided by the shares held before the buy
WeightedAvg_by_old_shares(pos, cost, total_shares) ==
    Frac(pos.avg_cost.num * pos.shares + cost * pos.avg_cost.den,
         pos.avg_cost.den * pos.shares)

\* (pos.avg_cost * pos.shares + cost) / total_shares
WeightedAvg(pos, cost, total_shares) ==
    Frac(pos.avg_cost.num * pos.shares + cost * pos.avg_cost.den,
         pos.avg_cost.den * total_shares)

buy_stock(st, ticker, shares, price) ==
    LET cost == shares * price IN
    IF cost > st.cash THEN Result(FALSE, st)
    ELSE
      LET pos == st.positions[ticker]
          total_shares == pos.shares + shares
          newPositions ==
            IF ticker \in DOMAIN st.positions
            THEN DictSet(st.positions, ticker,
                         Position(ticker, total_shares, WeightedAvg(pos, cost, total_shares)))
            ELSE DictSet(st.positions, ticker, Position(ticker, shares, Frac(price, 1)))
      IN Result(TRUE,
                [st EXCEPT !.cash = st.cash - cost,
                           !.positions = newPositions,
                           !.log = LogAppend(st, StockRecord(st.current_date, "BUY_STOCK", ticker, shares, price, cost))])

\* mutant of sell_stock: the Position is kept when its shares reach 0
sell_stock_keeps_empty(st, ticker, shares, price) ==
    IF ticker \notin DOMAIN st.positions \/ st.positions[ticker].shares < shares
    THEN Result(FALSE, st)
    ELSE
      LET proceeds == shares * price
          left == st.positions[ticker].shares - shares
      IN Result(TRUE,
                [st EXCEPT !.cash = st.cash + proceeds,
                           !.positions = [st.positions EXCEPT ![ticker].shares = left],
                           !.log = LogAppend(st, StockRecord(st.current_date, "SELL_STOCK", ticker, shares, price, proceeds))])

\* mutant of sell_stock: a sale of the whole Position is refused (<= for <)
sell_stock_strict(st, ticker, shares, price) ==
    IF ticker \notin DOMAIN st.positions \/ st.positions[ticker].shares <= shares
    THEN Result(FALSE, st)
    ELSE
      LET proceeds == shares * price
          left == st.positions[ticker].shares - shares
      IN Result(TRUE,
                [st EXCEPT !.cash = st.cash + proceeds,
                           !.positions = [st.positions EXCEPT ![ticker].shares = left],
                           !.log = LogAppend(st, StockRecord(st.current_date, "SELL_STOCK", ticker, shares, price, proceeds))])

sell_stock(st, ticker, shares, price) ==
    IF ticker \notin DOMAIN st.positions \/ st.positions[ticker].shares < shares
    THEN Result(FALSE, st)
    ELSE
      LET proceeds == shares * price
          left == st.positions[ticker].shares - shares
          newPositions ==
            IF left = 0
            THEN DictDel(st.positions, ticker)
            ELSE [st.positions EXCEPT ![ticker].shares = left]
      IN Result(TRUE,
                [st EXCEPT !.cash = st.cash + proceeds,
                           !.positions = newPositions,
                           !.log = LogAppend(st, StockRecord(st.current_date, "SELL_STOCK", ticker, shares, price, proceeds))])

\* mutant of buy_call: premium_received is stored with the sign of a sale
buy_call_positive_premium(st, ticker, strike, expiration, contracts, premium) ==
    LET premium_cost == premium * contracts * ContractSize IN
    IF st.cash < premium_cost THEN Result(FALSE, st)
    ELSE Result(TRUE,
                [st EXCEPT !.cash = st.cash - premium_cost,
                           !.options = Append(st.options,
                               OptionContract(ticker, strike, expiration, "call", contracts,
                                              premium_cost, "long")),
                           !.log = LogAppend(st,
                               OptionRecord(st.current_date, "BUY_CALL", ticker, contracts, strike, premium,
                                            premium_cost, expiration))])

buy_call(st, ticker, strike, expiration, contracts, premium) ==
    LET premium_cost == premium * contracts * ContractSize IN
    IF st.cash < premium_cost THEN Result(FALSE, st)
    ELSE Result(TRUE,
                [st EXCEPT !.cash = st.cash - premium_cost,
                           !.options = Append(st.options,
                               OptionContract(ticker, strike, expiration, "call", contracts,
                                              0 - premium_cost, "long")),
                           !.log = LogAppend(st,
                               OptionRecord(st.current_date, "BUY_CALL", ticker, contracts, strike, premium,
                                            premium_cost, expiration))])

\* mutant of sell_call: coverage is checked against the contract count, not
\* against contracts * 100 shares
sell_call_counts_contracts(st, ticker, strike, expiration, contracts, premium) ==
    IF ticker \notin DOMAIN st.positions \/ st.positions[ticker].shares < contracts
    THEN Result(FALSE, st)
    ELSE
      LET premium_collected == premium * contracts * ContractSize IN
      Result(TRUE,
             [st EXCEPT !.cash = st.cash + premium_collected,
                        !.options = Append(st.options,
                            OptionContract(ticker, strike, expiration, "call", contracts,
                                           premium_collected, "short")),
                        !.log = LogAppend(st,
                            OptionRecord(st.current_date, "SELL_CALL", ticker, contracts, strike, premium,
                                         premium_collected, expiration))])

\* mutant of sell_call: the premium is credited before the coverage check
sell_call_credits_first(st, ticker, strike, expiration, contracts, premium) ==
    LET required_shares == contracts * ContractSize
        premium_collected == premium * contracts * ContractSize
        credited == [st EXCEPT !.cash = st.cash + premium_collected]
    IN
    IF ticker \notin DOMAIN st.positions \/ st.positions[ticker].shares < required_shares
    THEN Result(FALSE, credited)
    ELSE
      Result(TRUE,
             [credited EXCEPT
                        !.options = Append(st.options,
                            OptionContract(ticker, strike, expiration, "call", contracts,
                                           premium_collected, "short")),
                        !.log = LogAppend(st,
                            OptionRecord(st.current_date, "SELL_CALL", ticker, contracts, strike, premium,
                                         premium_collected, expiration))])

\* variant of sell_call: refused while a short call of the ticker is open
sell_call_one_open(st, ticker, strike, expiration, contracts, premium) ==
    LET required_shares == contracts * ContractSize IN
    IF \/ ticker \notin DOMAIN st.positions
       \/ st.positions[ticker].shares < required_shares
       \/ \E i \in DOMAIN st.options :
            /\ st.options[i].ticker = ticker
            /\ st.options[i].option_type = "call"
            /\ st.options[i].position = "short"
    THEN Result(FALSE, st)
    ELSE
      LET premium_collected == premium * contracts * ContractSize IN
      Result(TRUE,
             [st EXCEPT !.cash = st.cash + premium_collected,
                        !.options = Append(st.options,
                            OptionContract(ticker, strike, expiration, "call", contracts,
                                           premium_collected, "short")),
                        !.log = LogAppend(st,
                            OptionRecord(st.current_date, "SELL_CALL", ticker, contracts, strike, premium,
                                         premium_collected, expiration))])

sell_call(st, ticker, strike, expiration, contracts, premium) ==
    LET required_shares == contracts * ContractSize IN
    IF ticker \notin DOMAIN st.positions \/ st.positions[ticker].shares < required_shares
    THEN Result(FALSE, st)
    ELSE
      LET premium_collected == premium * contracts * ContractSize IN
      Result(TRUE,
             [st EXCEPT !.cash = st.cash + premium_collected,
                        !.options = Append(st.options,
                            OptionContract(ticker, strike, expiration, "call", contracts,
                                           premium_collected, "short")),
                        !.log = LogAppend(st,
                            OptionRecord(st.current_date, "SELL_CALL", ticker, contracts, strike, premium,
                                         premium_collected, expiration))])

\* mutant of sell_put: the put must be cash-secured
sell_put_secured(st, ticker, strike, expiration, contracts, premium) ==
    LET premium_collected == premium * contracts * ContractSize IN
    IF st.cash < strike * contracts * ContractSize THEN Result(FALSE, st)
    ELSE
    Result(TRUE,
           [st EXCEPT !.cash = st.cash + premium_collected,
                      !.options = Append(st.options,
                          OptionContract(ticker, strike, expiration, "put", contracts,
                                         premium_collected, "short")),
                      !.log = LogAppend(st,
                          OptionRecord(st.current_date, "SELL_PUT", ticker, contracts, strike, premium,
                                       premium_collected, expiration))])

sell_put(st, ticker, strike, expiration, contracts, premium) ==
    LET premium_collected == premium * contracts * ContractSize IN
    Result(TRUE,
           [st EXCEPT !.cash = st.cash + premium_collected,
                      !.options = Append(st.options,
                          OptionContract(ticker, strike, expiration, "put", contracts,
                                         premium_collected, "short")),
                      !.log = LogAppend(st,
                          OptionRecord(st.current_date, "SELL_PUT", ticker, contracts, strike, premium,
                                       premium_collected, expiration))])

\* mutant of buy_put: the premium is paid without the cash check
buy_put_unchecked(st, ticker, strike, expiration, contracts, premium) ==
    LET premium_cost == premium * contracts * ContractSize IN
    Result(TRUE,
           [st EXCEPT !.cash = st.cash - premium_cost,
                      !.options = Append(st.options,
                          OptionContract(ticker, strike, expiration, "put", contracts,
                                         0 - premium_cost, "long")),
                      !.log = LogAppend(st,
                          OptionRecord(st.current_date, "BUY_PUT", ticker, contracts, strike, premium,
                                       premium_cost, expiration))])

buy_put(st, ticker, strike, expiration, contracts, premium) ==
    LET premium_cost == premium * contracts * ContractSize IN
    IF st.cash < premium_cost THEN Result(FALSE, st)
    ELSE Result(TRUE,
                [st EXCEPT !.cash = st.cash - premium_cost,
                           !.options = Append(st.options,
                               OptionContract(ticker, strike, expiration, "put", contracts,
                                              0 - premium_cost, "long")),
                           !.log = LogAppend(st,
                               OptionRecord(st.current_date, "BUY_PUT", ticker, contracts, strike, premium,
                                            premium_cost, expiration))])

\* mutant of FirstMatch: the loop does not stop at the first match and ends
\* on the last one
FirstMatch_last(opts, ticker, option_type, strike, expiration, contracts) ==
    LET hits == {i \in 1..Len(opts) :
                   /\ opts[i].ticker = ticker
                   /\ opts[i].option_type = option_type
                   /\ opts[i].position = "long"
                   /\ opts[i].strike = strike
                   /\ opts[i].expiration_date = expiration
                   /\ opts[i].contracts >= contracts}
    IN IF hits = {} THEN 0 ELSE CHOOSE i \in hits : \A j \in hits : i >= j

\* the loop of close_call / close_put: the index of the first contract that
\* matches, 0 for None
FirstMatch(opts, ticker, option_type, strike, expiration, contracts) ==
    LET hits == {i \in 1..Len(opts) :
                   /\ opts[i].ticker = ticker
                   /\ opts[i].option_type = option_type
                   /\ opts[i].position = "long"
                   /\ opts[i].strike = strike
                   /\ opts[i].expiration_date = expiration
                   /\ opts[i].contracts >= contracts}
    IN IF hits = {} THEN 0 ELSE CHOOSE i \in hits : \A j \in hits : i <= j

\* a variant that leaves the closed contract in the portfolio
CloseAt_leaves_contract(st, option_index, action, ticker, strike, expiration, contracts, premium) ==
    LET premium_collected == premium * contracts * ContractSize
    IN Result(TRUE,
              [st EXCEPT !.cash = st.cash + premium_collected,
                         !.log = LogAppend(st,
                             OptionRecord(st.current_date, action, ticker, contracts, strike, premium,
                                          premium_collected, expiration))])

\* what close_call / close_put do once option_index is found
CloseAt(st, option_index, action, ticker, strike, expiration, contracts, premium) ==
    LET premium_collected == premium * contracts * ContractSize
        opt == st.options[option_index]
        newOptions ==
          IF opt.contracts = contracts
          THEN Pop(st.options, option_index)
          ELSE [st.options EXCEPT ![option_index].contracts = opt.contracts - contracts]
    IN Result(TRUE,
              [st EXCEPT !.cash = st.cash + premium_collected,
                         !.options = newOptions,
                         !.log = LogAppend(st,
                             OptionRecord(st.current_date, action, ticker, contracts, strike, premium,
                                          premium_collected, expiration))])

close_call(st, ticker, strike, expiration, contracts, premium) ==
    LET option_index == FirstMatch(st.options, ticker, "call", strike, expiration, contracts) IN
    IF option_index = 0 THEN Result(FALSE, st)
    ELSE CloseAt(st, option_index, "CLOSE_CALL", ticker, strike, expiration, contracts, premium)

close_put(st, ticker, strike, expiration, contracts, premium) ==
    LET option_index == FirstMatch(st.options, ticker, "put", strike, expiration, contracts) IN
    IF option_index = 0 THEN Result(FALSE, st)
    ELSE CloseAt(st, option_index, "CLOSE_PUT", ticker, strike, expiration, contracts, premium)

\* ------------------------------------------------------------ Portfolio
Max(a, b) == IF a >= b THEN a ELSE b

\* sum(pos.shares * prices.get(pos.ticker, 0) for pos in positions.values())
RECURSIVE StockValueOf(_, _, _)
StockValueOf(pos, keys, current_prices) ==
    IF keys = {} THEN 0
    ELSE LET k == CHOOSE t \in keys : TRUE
         IN pos[k].shares * DictGet(current_prices, pos[k].ticker, 0)
            + StockValueOf(pos, keys \ {k}, current_prices)

get_stock_value(pos, current_prices) == StockValueOf(pos, DOMAIN pos, current_prices)

\* _get_intrinsic_value: the intrinsic value, negative for a written contract
get_intrinsic_value(opt, current_prices) ==
    LET current_price == DictGet(current_prices, opt.ticker, 0)
        intrinsic == IF opt.option_type = "call"
                     THEN Max(0, current_price - opt.strike)
                     ELSE Max(0, opt.strike - current_price)
    IN IF opt.position = "short" THEN 0 - intrinsic ELSE intrinsic

\* get_options_value of the Portfolio the Engine owns (simulation.py): both
\* branches on pricing_func add intrinsic * contracts * 100
RECURSIVE get_options_value(_, _, _)
get_options_value(opts, date, current_prices) ==
    IF opts = << >> THEN 0
    ELSE LET opt == Head(opts)
             value == IF date >= opt.expiration_date THEN 0
                      ELSE get_intrinsic_value(opt, current_prices)
                           * opt.contracts * ContractSize
         IN value + get_options_value(Tail(opts), date, current_prices)

\* a variant that leaves the options out of the total
get_total_value_without_options(c, pos, opts, date, current_prices) ==
    c + get_stock_value(pos, current_prices)

get_total_value(c, pos, opts, date, current_prices) ==
    c + get_stock_value(pos, current_prices) + get_options_value(opts, date, current_prices)

\* _get_intrinsic_value_simple of portfolio.py: the unsigned intrinsic value
get_intrinsic_value_simple(opt, current_prices) ==
    LET current_price == DictGet(current_prices, opt.ticker, 0)
    IN IF opt.option_type = "call"
       THEN Max(0, current_price - opt.strike)
       ELSE Max(0, opt.strike - current_price)

\* get_options_value of portfolio.py called with volatility=None: a contract
\* is skipped when it has expired, when its price is 0 or missing and when no
\* day is left; otherwise its intrinsic value is added or subtracted
RECURSIVE portfolio_get_options_value(_, _, _)
portfolio_get_options_value(opts, date, current_prices) ==
    IF opts = << >> THEN 0
    ELSE LET opt == Head(opts)
             current_price == DictGet(current_prices, opt.ticker, 0)
             days_to_expiration == opt.expiration_date - date
             option_value == get_intrinsic_value_simple(opt, current_prices)
             value == IF date >= opt.expiration_date THEN 0
                      ELSE IF current_price = 0 THEN 0
                      ELSE IF days_to_expiration <= 0 THEN 0
                      ELSE IF opt.position = "long"
                           THEN option_value * opt.contracts * ContractSize
                           ELSE 0 - option_value * opt.contracts * ContractSize
         IN value + portfolio_get_options_value(Tail(opts), date, current_prices)

\* ------------------------------------------------------ Simulation Engine
\* a variant that takes every contract of the type for a written one
IsShort_any_position(opt, option_type) == opt.option_type = option_type

\* "opt.option_type == 'call' and opt.position == 'short'" and its put twin
IsShort(opt, option_type) ==
    opt.option_type = option_type /\ opt.position = "short"

\* one iteration of the loop of _handle_option_expirations over the option
\* at index i, then the rest of the loop; self.transactions.append is done by
\* the Engine itself, the stock trade by the Executor, whose result is dropped
RECURSIVE ExpireFrom(_, _, _, _)
ExpireFrom(st, i, date, current_prices) ==
    IF i > Len(st.options) THEN st
    ELSE
      LET opt == st.options[i]
          current_price == DictGet(current_prices, opt.ticker, 0)
          shares == opt.contracts * ContractSize
          after ==
            IF date >= opt.expiration_date
            THEN IF IsShort(opt, "call")
                 THEN IF current_price >= opt.strike
                      THEN sell_stock(
                             [st EXCEPT !.log = Append(st.log,
                                 [date |-> date, action |-> "CALL_EXERCISED",
                                  ticker |-> opt.ticker, contracts |-> opt.contracts,
                                  strike |-> opt.strike, current_price |-> current_price,
                                  shares_sold |-> shares])],
                             opt.ticker, shares, opt.strike).st
                      ELSE st
                 ELSE IF IsShort(opt, "put")
                      THEN IF current_price <= opt.strike
                           THEN buy_stock(
                                  [st EXCEPT !.log = Append(st.log,
                                      [date |-> date, action |-> "PUT_EXERCISED",
                                       ticker |-> opt.ticker, contracts |-> opt.contracts,
                                       strike |-> opt.strike, current_price |-> current_price,
                                       shares_bought |-> shares])],
                                  opt.ticker, shares, opt.strike).st
                           ELSE st
                      ELSE st
            ELSE st
      IN ExpireFrom(after, i + 1, date, current_prices)

\* expired_options: the indices the loop collects
ExpiredIndices(opts, date) == {i \in 1..Len(opts) : date >= opts[i].expiration_date}

\* a variant that pops only the last of the collected indices
PopAll_last_only(opts, idx) ==
    IF idx = {} THEN opts
    ELSE Pop(opts, CHOOSE k \in idx : \A j \in idx : k >= j)

\* "for i in sorted(expired_options, reverse=True): options.pop(i)"
RECURSIVE PopAll(_, _)
PopAll(opts, idx) ==
    IF idx = {} THEN opts
    ELSE LET i == CHOOSE k \in idx : \A j \in idx : k >= j
         IN PopAll(Pop(opts, i), idx \ {i})

\* a variant that leaves the portfolio as it is
handle_option_expirations_skipped(st, date, current_prices) == st

handle_option_expirations(st, date, current_prices) ==
    LET after == ExpireFrom(st, 1, date, current_prices)
    IN [after EXCEPT !.options = PopAll(after.options, ExpiredIndices(st.options, date))]

\* ----------------------------------------------------------------- state
\* both tickers over the whole calendar (yfinance leaves the end date out)
WholeCalendar(initial_cash) ==
    [tickers |-> <<"A", "B">>, start_date |-> 1, end_date |-> 3,
     initial_cash |-> initial_cash]

Init ==
    /\ cash \in InitialCashes
    /\ config = WholeCalendar(cash)
    /\ instances = << >>
    /\ positions = << >>
    /\ options = << >>
    /\ transactions = << >>
    /\ transaction_log = "None"
    /\ current_date = 0
    /\ day = 0
    /\ last = [op |-> "none", ok |-> TRUE]
    /\ market_data = << >>
    /\ volatility_data = << >>
    /\ strategy_callback = [name |-> "None", ticker |-> "None"]
    /\ pc = "none"
    /\ prices = << >>
    /\ history = << >>

\* the state an operation leaves becomes the portfolio and the log
Install(st) ==
    /\ cash' = st.cash
    /\ positions' = st.positions
    /\ options' = st.options
    /\ transactions' = st.log

\* The head of one iteration of run(): the next trading date, the log and
\* the day marker handed to the Executor, the day's prices, the expirations.
DayStart ==
    /\ day + 1 \in TradingDates
    /\ day' = day + 1
    /\ transaction_log' = "transactions"
    /\ current_date' = day + 1
    /\ \E current_prices \in [Tickers -> ClosePrices] :
         Install(handle_option_expirations(
                   [St EXCEPT !.transaction_log = "transactions", !.current_date = day + 1],
                   day + 1, current_prices))
    /\ last' = [op |-> "none", ok |-> TRUE]
    /\ UNCHANGED run_vars

\* An Executor call made by the Strategy callback of the current day: the
\* portfolio and the log become what the operation leaves, and the caller
\* holds the boolean it returned.
Call(op, r) ==
    /\ day >= 1
    /\ Len(transactions) < MaxLog
    /\ Install(r.st)
    /\ last' = [op |-> op, ok |-> r.ok]
    /\ UNCHANGED <<transaction_log, current_date, day>>
    /\ UNCHANGED run_vars

BuyStock ==
    \E ticker \in Tickers, shares \in ShareCounts, price \in Prices :
        Call("buy_stock", buy_stock(St, ticker, shares, price))

SellStock ==
    \E ticker \in Tickers, shares \in ShareCounts, price \in Prices :
        Call("sell_stock", sell_stock(St, ticker, shares, price))

BuyCall ==
    /\ Len(options) < MaxOptions
    /\ \E c \in OptionChain, contracts \in ContractCounts, premium \in Premiums :
        Call("buy_call", buy_call(St, c.ticker, c.strike, c.expiration, contracts, premium))

SellCall ==
    /\ Len(options) < MaxOptions
    /\ \E c \in OptionChain, contracts \in ContractCounts, premium \in Premiums :
        Call("sell_call", sell_call(St, c.ticker, c.strike, c.expiration, contracts, premium))

SellPut ==
    /\ Len(options) < MaxOptions
    /\ \E c \in OptionChain, contracts \in ContractCounts, premium \in Premiums :
        Call("sell_put", sell_put(St, c.ticker, c.strike, c.expiration, contracts, premium))

BuyPut ==
    /\ Len(options) < MaxOptions
    /\ \E c \in OptionChain, contracts \in ContractCounts, premium \in Premiums :
        Call("buy_put", buy_put(St, c.ticker, c.strike, c.expiration, contracts, premium))

CloseCall ==
    \E c \in OptionChain, contracts \in ContractCounts, premium \in Premiums :
        Call("close_call", close_call(St, c.ticker, c.strike, c.expiration, contracts, premium))

ClosePut ==
    \E c \in OptionChain, contracts \in ContractCounts, premium \in Premiums :
        Call("close_put", close_put(St, c.ticker, c.strike, c.expiration, contracts, premium))

Next ==
    \/ DayStart
    \/ BuyStock
    \/ SellStock
    \/ BuyCall
    \/ SellCall
    \/ SellPut
    \/ BuyPut
    \/ CloseCall
    \/ ClosePut

Spec == Init /\ [][Next]_vars

\* ------------------------------------------------- BacktestSimulation.run
\* self.tickers: the first ticker's frame gives the calendar
tickers == config.tickers

\* What load_market_data leaves: for every ticker a price frame (the closes
\* by date, and whether reading it raises) and for the first ticker the
\* trailing volatility by date, in percent.  B has no row on the first date
\* in the second case and none on the second date in the third; its frame
\* cannot be read in the fourth; the calendar is one date in the fifth.
MarketData ==
    {[market |-> [A |-> [readable |-> TRUE, Close |-> (1 :> 1 @@ 2 :> 2)],
                  B |-> [readable |-> TRUE, Close |-> (1 :> 2 @@ 2 :> 1)]],
      volatility |-> [A |-> (1 :> 30 @@ 2 :> 30)]],
     [market |-> [A |-> [readable |-> TRUE, Close |-> (1 :> 2 @@ 2 :> 1)],
                  B |-> [readable |-> TRUE, Close |-> (2 :> 1)]],
      volatility |-> [A |-> (2 :> 30)]],
     [market |-> [A |-> [readable |-> TRUE, Close |-> (1 :> 1 @@ 2 :> 1)],
                  B |-> [readable |-> TRUE, Close |-> (1 :> 2)]],
      volatility |-> [A |-> << >>]],
     [market |-> [A |-> [readable |-> TRUE, Close |-> (1 :> 1 @@ 2 :> 2)],
                  B |-> [readable |-> FALSE, Close |-> (1 :> 1 @@ 2 :> 1)]],
      volatility |-> [A |-> (1 :> 30 @@ 2 :> 30)]],
     [market |-> [A |-> [readable |-> TRUE, Close |-> (2 :> 1)],
                  B |-> [readable |-> TRUE, Close |-> (1 :> 1 @@ 2 :> 2)]],
      volatility |-> [A |-> << >>]]}

\* the greatest element of a non-empty set of dates
Latest(dates) == CHOOSE d \in dates : \A e \in dates : d >= e

\* a variant that takes the last row of the frame, whatever its date
PriceOf_last_row(df, date) ==
    IF ~df.readable THEN [has |-> TRUE, price |-> 0]
    ELSE [has |-> TRUE, price |-> df.Close[Latest(DOMAIN df.Close)]]

\* one iteration of the loop of _get_current_prices: the close of the date,
\* else the last close before it, else no entry; 0.0 when the frame raises
PriceOf(df, date) ==
    IF ~df.readable THEN [has |-> TRUE, price |-> 0]
    ELSE IF date \in DOMAIN df.Close THEN [has |-> TRUE, price |-> df.Close[date]]
    ELSE LET prior_data == {d \in DOMAIN df.Close : d <= date} IN
         IF prior_data # {}
         THEN [has |-> TRUE, price |-> df.Close[Latest(prior_data)]]
         ELSE [has |-> FALSE, price |-> 0]

get_current_prices(md, date) ==
    [t \in {k \in DOMAIN md : PriceOf(md[k], date).has} |-> PriceOf(md[t], date).price]

\* series.loc[:date]: the rows dated on or before the date
Until(series, date) == [d \in {e \in DOMAIN series : e <= date} |-> series[d]]

\* the market_data dict run() hands to the callback: the date, the day's
\* prices, every ticker's frame and volatility series cut with .loc[:date]
market_snapshot(md, vd, date, current_prices) ==
    [date |-> date,
     prices |-> current_prices,
     data |-> [t \in DOMAIN md |-> [md[t] EXCEPT !.Close = Until(md[t].Close, date)]],
     volatility |-> [t \in DOMAIN vd |-> Until(vd[t], date)]]

\* trading_dates = self.market_data[self.tickers[0]].index
trading_dates == DOMAIN market_data[tickers[1]].Close

\* a variant that passes over the date that follows the current one
RemainingDates_skips_one == {d \in trading_dates : d > day + 1}

\* the dates the for loop has still to take
RemainingDates == {d \in trading_dates : d > day}

RunInit ==
    /\ cash \in InitialCashes
    /\ positions = << >>
    /\ options = << >>
    /\ transactions = << >>
    /\ transaction_log = "None"
    /\ current_date = 0
    /\ day = 0
    /\ last = [op |-> "none", ok |-> TRUE]
    /\ \E m \in MarketData :
         /\ market_data = m.market
         /\ volatility_data = m.volatility
    /\ strategy_callback = [name |-> "callback", ticker |-> "None"]
    /\ config = WholeCalendar(cash)
    /\ instances = << >>
    /\ pc = "loop"
    /\ prices = << >>
    /\ history = << >>

\* The head of one iteration of the loop of run(): the next date of the
\* calendar, set_transaction_log, _get_current_prices and
\* _handle_option_expirations; then the callback is entered.
NextDay ==
    /\ pc = "loop"
    /\ RemainingDates # {}
    /\ LET date == CHOOSE d \in RemainingDates : \A e \in RemainingDates : d <= e
           current_prices == get_current_prices(market_data, date)
       IN /\ day' = date
          /\ transaction_log' = "transactions"
          /\ current_date' = date
          /\ prices' = current_prices
          /\ Install(handle_option_expirations(
                       [St EXCEPT !.transaction_log = "transactions", !.current_date = date],
                       date, current_prices))
    /\ last' = [op |-> "none", ok |-> TRUE]
    /\ pc' = "callback"
    /\ UNCHANGED <<market_data, volatility_data, strategy_callback, history, config, instances>>

\* The Executor calls of a callback; actions=TradingAction is the class of
\* simulation.py, which has these four operations.
RunBuyStock == pc = "callback" /\ strategy_callback.name = "callback" /\ BuyStock
RunSellStock == pc = "callback" /\ strategy_callback.name = "callback" /\ SellStock
RunSellCall == pc = "callback" /\ strategy_callback.name = "callback" /\ SellCall
RunSellPut == pc = "callback" /\ strategy_callback.name = "callback" /\ SellPut

\* the callback returns to run()
CallbackReturns ==
    /\ pc = "callback"
    /\ strategy_callback.name = "callback"
    /\ pc' = "snapshot"
    /\ UNCHANGED <<cash, positions, options, transactions, transaction_log, current_date,
                   day, last, market_data, volatility_data, strategy_callback, prices,
                   history, config, instances>>

\* the record run() appends to self.history
ValuationSnapshot(date, c, pos, opts, current_prices) ==
    [date |-> date,
     cash |-> c,
     stock_value |-> get_stock_value(pos, current_prices),
     options_value |-> get_options_value(opts, date, current_prices),
     total_value |-> get_total_value(c, pos, opts, date, current_prices)]

\* a variant whose options valuation drops the contracts it has valued
Snapshot_consumes_options ==
    /\ pc = "snapshot"
    /\ history' = Append(history, ValuationSnapshot(day, cash, positions, options, prices))
    /\ options' = << >>
    /\ pc' = "loop"
    /\ UNCHANGED <<cash, positions, transactions, transaction_log, current_date,
                   day, last, market_data, volatility_data, strategy_callback, prices,
                   config, instances>>

\* The tail of the iteration: the three valuations and history.append
Snapshot ==
    /\ pc = "snapshot"
    /\ history' = Append(history, ValuationSnapshot(day, cash, positions, options, prices))
    /\ pc' = "loop"
    /\ UNCHANGED <<cash, positions, options, transactions, transaction_log, current_date,
                   day, last, market_data, volatility_data, strategy_callback, prices,
                   config, instances>>

\* the calendar is exhausted: run() returns the history
RunReturns ==
    /\ pc = "loop"
    /\ RemainingDates = {}
    /\ pc' = "returned"
    /\ UNCHANGED <<cash, positions, options, transactions, transaction_log, current_date,
                   day, last, market_data, volatility_data, strategy_callback, prices,
                   history, config, instances>>

RunNext ==
    \/ NextDay
    \/ RunBuyStock
    \/ RunSellStock
    \/ RunSellCall
    \/ RunSellPut
    \/ CallbackReturns
    \/ Snapshot
    \/ RunReturns

\* ---------------------------------------------- the buy-and-hold callback
\* a variant that buys whatever the cash affords on every day, held or not
buy_and_hold_every_day(st, ticker, current_prices) ==
    IF ticker \notin DOMAIN current_prices
    THEN [raised |-> TRUE, called |-> FALSE, ok |-> FALSE, st |-> st]
    ELSE LET current_price == current_prices[ticker] IN
         IF current_price = 0
         THEN [raised |-> TRUE, called |-> FALSE, ok |-> FALSE, st |-> st]
         ELSE LET max_shares == st.cash \div current_price IN
              IF max_shares > 0
              THEN LET r == buy_stock(st, ticker, max_shares, current_price)
                   IN [raised |-> FALSE, called |-> TRUE, ok |-> r.ok, st |-> r.st]
              ELSE [raised |-> FALSE, called |-> FALSE, ok |-> FALSE, st |-> st]

\* buy_and_hold(date, portfolio, market_data, actions) for its ticker:
\* market_data['prices'][ticker] raises KeyError when the ticker has no
\* entry, portfolio.cash / current_price raises ZeroDivisionError at 0.0
buy_and_hold(st, ticker, current_prices) ==
    IF ticker \notin DOMAIN current_prices
    THEN [raised |-> TRUE, called |-> FALSE, ok |-> FALSE, st |-> st]
    ELSE LET current_price == current_prices[ticker] IN
         IF ticker \notin DOMAIN st.positions \/ st.positions[ticker].shares = 0
         THEN IF current_price = 0
              THEN [raised |-> TRUE, called |-> FALSE, ok |-> FALSE, st |-> st]
              ELSE LET max_shares == st.cash \div current_price IN
                   IF max_shares > 0
                   THEN LET r == buy_stock(st, ticker, max_shares, current_price)
                        IN [raised |-> FALSE, called |-> TRUE, ok |-> r.ok, st |-> r.st]
                   ELSE [raised |-> FALSE, called |-> FALSE, ok |-> FALSE, st |-> st]
         ELSE [raised |-> FALSE, called |-> FALSE, ok |-> FALSE, st |-> st]

\* the cash a buy-and-hold run starts with: also less than one share costs
\* on the first date, and an amount that leaves a remainder
HoldCashes == InitialCashes \cup {1, 3}

HoldInit ==
    /\ cash \in HoldCashes
    /\ positions = << >>
    /\ options = << >>
    /\ transactions = << >>
    /\ transaction_log = "None"
    /\ current_date = 0
    /\ day = 0
    /\ last = [op |-> "none", ok |-> TRUE]
    /\ \E m \in MarketData :
         /\ market_data = m.market
         /\ volatility_data = m.volatility
    /\ \E t \in Tickers : strategy_callback = [name |-> "buy_and_hold", ticker |-> t]
    /\ config = WholeCalendar(cash)
    /\ instances = << >>
    /\ pc = "loop"
    /\ prices = << >>
    /\ history = << >>

\* The whole callback; an exception it raises leaves run() through the loop.
BuyAndHold ==
    /\ pc = "callback"
    /\ strategy_callback.name = "buy_and_hold"
    /\ LET r == buy_and_hold(St, strategy_callback.ticker, prices) IN
         /\ Install(r.st)
         /\ last' = IF r.called THEN [op |-> "buy_stock", ok |-> r.ok] ELSE last
         /\ pc' = IF r.raised THEN "raised" ELSE "snapshot"
    /\ UNCHANGED <<transaction_log, current_date, day, market_data, volatility_data,
                   strategy_callback, prices, history, config, instances>>

HoldNext ==
    \/ NextDay
    \/ BuyAndHold
    \/ Snapshot
    \/ RunReturns

SpecHold ==
    /\ HoldInit
    /\ [][HoldNext]_vars
    /\ WF_vars(NextDay)
    /\ WF_vars(BuyAndHold)
    /\ WF_vars(Snapshot)
    /\ WF_vars(RunReturns)

\* run() is sequential code: each of its steps is taken once it is reached,
\* and the callback runs to completion
SpecRun ==
    /\ RunInit
    /\ [][RunNext]_vars
    /\ WF_vars(NextDay)
    /\ WF_vars(CallbackReturns)
    /\ WF_vars(Snapshot)
    /\ WF_vars(RunReturns)

\* ---------------------------------------------- the covered-call callback
\* create_covered_call_strategy(ticker, strike_factor, interest_rate,
\* time_to_expiration): whole strike factors, and days = int(t*365)
StrikeFactors == {1, 2}
ExpirationDays == {1, 2}
\* the cash a covered-call run starts with: also what buys fewer than 100 shares
CallCashes == InitialCashes \cup {150}
\* the Black-Scholes premium is a real the model does not compute: one of
\* these stands for it
CallPremiums == Premiums \cup {0}

\* a variant that sees no open call
has_active_call_never(opts, ticker) == FALSE

\* any(opt.ticker == ticker and opt.option_type == 'call' for opt in portfolio.options)
has_active_call(opts, ticker) ==
    \E i \in DOMAIN opts : opts[i].ticker = ticker /\ opts[i].option_type = "call"

\* covered_call_strategy(date, portfolio, market_data, actions) for its
\* ticker: buy what the cash affords, then write calls on every full hundred
\* of shares when no call of the ticker is in the portfolio and the ticker
\* has a volatility observation (the series of MarketData hold no NaN).
\* market_data['prices'][ticker] raises KeyError when the ticker has no
\* entry, portfolio.cash / current_price raises ZeroDivisionError at 0.0
covered_call_strategy(st, cb, date, snapshot, premium) ==
    LET ticker == cb.ticker
        no_call == [raised |-> FALSE, op |-> "none", ok |-> TRUE, st |-> st]
    IN
    IF ticker \notin DOMAIN snapshot.prices
    THEN [no_call EXCEPT !.raised = TRUE]
    ELSE LET current_price == snapshot.prices[ticker] IN
         IF current_price = 0
         THEN [no_call EXCEPT !.raised = TRUE]
         ELSE
           LET max_shares == st.cash \div current_price
               bought == IF max_shares > 0
                         THEN buy_stock(st, ticker, max_shares, current_price)
                         ELSE Result(TRUE, st)
               after_buy == [no_call EXCEPT !.op = IF max_shares > 0 THEN "buy_stock" ELSE "none",
                                            !.ok = bought.ok,
                                            !.st = bought.st]
               pf == bought.st
           IN IF ticker \in DOMAIN pf.positions /\ pf.positions[ticker].shares > 0
              THEN IF ~has_active_call(pf.options, ticker)
                   THEN LET shares == pf.positions[ticker].shares
                            contracts == shares \div ContractSize
                        IN IF contracts > 0
                           THEN LET strike == current_price * cb.strike_factor
                                    expiration == date + cb.days
                                IN IF /\ ticker \in DOMAIN snapshot.volatility
                                      /\ DOMAIN snapshot.volatility[ticker] # {}
                                   THEN LET sold == sell_call(pf, ticker, strike, expiration,
                                                              contracts, premium)
                                        IN [no_call EXCEPT !.op = "sell_call",
                                                           !.ok = sold.ok,
                                                           !.st = sold.st]
                                   ELSE after_buy
                           ELSE after_buy
                   ELSE after_buy
              ELSE after_buy

CallInit ==
    /\ cash \in CallCashes
    /\ positions = << >>
    /\ options = << >>
    /\ transactions = << >>
    /\ transaction_log = "None"
    /\ current_date = 0
    /\ day = 0
    /\ last = [op |-> "none", ok |-> TRUE]
    /\ \E m \in MarketData :
         /\ market_data = m.market
         /\ volatility_data = m.volatility
    /\ \E ticker \in Tickers, f \in StrikeFactors, d \in ExpirationDays :
         strategy_callback = [name |-> "covered_call", ticker |-> ticker,
                              strike_factor |-> f, days |-> d]
    /\ config = WholeCalendar(cash)
    /\ instances = << >>
    /\ pc = "loop"
    /\ prices = << >>
    /\ history = << >>

\* The whole callback; an exception it raises leaves run() through the loop.
CoveredCall ==
    /\ pc = "callback"
    /\ strategy_callback.name = "covered_call"
    /\ \E premium \in CallPremiums :
         LET r == covered_call_strategy(
                      St, strategy_callback, day,
                      market_snapshot(market_data, volatility_data, day, prices), premium)
         IN /\ Install(r.st)
            /\ last' = IF r.op = "none" THEN last ELSE [op |-> r.op, ok |-> r.ok]
            /\ pc' = IF r.raised THEN "raised" ELSE "snapshot"
    /\ UNCHANGED <<transaction_log, current_date, day, market_data, volatility_data,
                   strategy_callback, prices, history, config, instances>>

CallNext ==
    \/ NextDay
    \/ CoveredCall
    \/ Snapshot
    \/ RunReturns

SpecCall ==
    /\ CallInit
    /\ [][CallNext]_vars
    /\ WF_vars(NextDay)
    /\ WF_vars(CoveredCall)
    /\ WF_vars(Snapshot)
    /\ WF_vars(RunReturns)

\* ----------------------------------------------------- the LEAP callback
\* create_leap_strategy(ticker, strike_factor, days, interest_rate,
\* roll_threshold), in whole days of the calendar
LeapDays == {1, 2, 3}
RollThresholds == {1, 2}
\* "portfolio.cash > 1000"
CashFloor == 1000
LeapCashes == {0, 2000}
\* stand-ins for the Black-Scholes premiums, reals the model does not compute
LeapPremiums == {0, 1, 2}
\* the class handed to the callback as actions: run() passes the
\* TradingAction of simulation.py; a driver may pass the one of
\* trading_actions.py
Handles == {"simulation", "trading_actions"}

\* the operations the class has
Provides(handle, op) ==
    \/ op \in {"buy_stock", "sell_stock", "sell_call", "sell_put"}
    \/ handle = "trading_actions"

\* any(opt.ticker == ticker and opt.option_type == 'call' and opt.position == 'long' ...)
has_active_leap(opts, ticker) ==
    \E i \in DOMAIN opts :
        opts[i].ticker = ticker /\ opts[i].option_type = "call" /\ opts[i].position = "long"

\* what a callback has done when it returns or raises
Outcome(error, op, ok, st) == [error |-> error, op |-> op, ok |-> ok, st |-> st]

\* the first part of leap_strategy: buy calls when none is held and cash is
\* above the floor.  int(cash / (premium*100)) raises OverflowError at a
\* premium of 0.0 (numpy gives inf), actions.buy_call raises AttributeError
\* when the class has no buy_call.
leap_open(st, cb, date, snapshot, premium) ==
    LET ticker == cb.ticker
        current_price == snapshot.prices[ticker]
    IN IF ~has_active_leap(st.options, ticker) /\ st.cash > CashFloor
       THEN IF /\ ticker \in DOMAIN snapshot.volatility
               /\ DOMAIN snapshot.volatility[ticker] # {}
            THEN IF premium = 0 THEN Outcome("OverflowError", "none", TRUE, st)
                 ELSE LET max_contracts == st.cash \div (premium * ContractSize) IN
                      IF max_contracts > 0
                      THEN IF ~Provides(cb.handle, "buy_call")
                           THEN Outcome("AttributeError", "buy_call", FALSE, st)
                           ELSE LET r == buy_call(st, ticker, current_price * cb.strike_factor,
                                                  date + cb.days, max_contracts, premium)
                                IN Outcome("none", "buy_call", r.ok, r.st)
                      ELSE Outcome("none", "none", TRUE, st)
            ELSE Outcome("none", "none", TRUE, st)
       ELSE Outcome("none", "none", TRUE, st)

\* the long calls of the ticker that are due for a roll, by index
RollCandidates(opts, ticker, date, roll_threshold) ==
    {i \in DOMAIN opts :
        /\ opts[i].ticker = ticker
        /\ opts[i].option_type = "call"
        /\ opts[i].position = "long"
        /\ opts[i].expiration_date - date < roll_threshold
        /\ opts[i].expiration_date - date > 0}

\* the second part: the loop over portfolio.options closes the first long
\* call that is due, buys the replacement and breaks; without a volatility
\* observation it passes over every contract
leap_roll(before, cb, date, snapshot, premium, current_premium) ==
    LET st == before.st
        ticker == cb.ticker
        current_price == snapshot.prices[ticker]
        due == RollCandidates(st.options, ticker, date, cb.roll_threshold)
    IN IF /\ due # {}
          /\ ticker \in DOMAIN snapshot.volatility
          /\ DOMAIN snapshot.volatility[ticker] # {}
       THEN LET opt == st.options[CHOOSE i \in due : \A j \in due : i <= j] IN
            IF ~Provides(cb.handle, "close_call")
            THEN Outcome("AttributeError", "close_call", FALSE, st)
            ELSE LET closed == close_call(st, ticker, opt.strike, opt.expiration_date,
                                          opt.contracts, current_premium)
                 IN IF premium = 0
                    THEN Outcome("OverflowError", "close_call", closed.ok, closed.st)
                    ELSE LET max_new_contracts ==
                                 closed.st.cash \div (premium * ContractSize)
                         IN IF max_new_contracts > 0
                            THEN LET r == buy_call(closed.st, ticker,
                                                   current_price * cb.strike_factor,
                                                   date + cb.days, max_new_contracts, premium)
                                 IN Outcome("none", "buy_call", r.ok, r.st)
                            ELSE Outcome("none", "close_call", closed.ok, closed.st)
       ELSE before

\* leap_strategy(date, portfolio, market_data, actions);
\* market_data['prices'][ticker] raises KeyError when the ticker has no entry
leap_strategy(st, cb, date, snapshot, premium, current_premium) ==
    IF cb.ticker \notin DOMAIN snapshot.prices
    THEN Outcome("KeyError", "none", TRUE, st)
    ELSE LET opened == leap_open(st, cb, date, snapshot, premium) IN
         IF opened.error # "none" THEN opened
         ELSE leap_roll(opened, cb, date, snapshot, premium, current_premium)

LeapInit ==
    /\ cash \in LeapCashes
    /\ positions = << >>
    /\ options = << >>
    /\ transactions = << >>
    /\ transaction_log = "None"
    /\ current_date = 0
    /\ day = 0
    /\ last = [op |-> "none", ok |-> TRUE]
    /\ \E m \in MarketData :
         /\ market_data = m.market
         /\ volatility_data = m.volatility
    /\ \E ticker \in Tickers, f \in StrikeFactors, d \in LeapDays,
          th \in RollThresholds, h \in Handles :
         strategy_callback = [name |-> "leap", ticker |-> ticker, strike_factor |-> f,
                              days |-> d, roll_threshold |-> th, handle |-> h]
    /\ config = WholeCalendar(cash)
    /\ instances = << >>
    /\ pc = "loop"
    /\ prices = << >>
    /\ history = << >>

\* The whole callback; an exception it raises leaves run() through the loop.
Leap ==
    /\ pc = "callback"
    /\ strategy_callback.name = "leap"
    /\ \E premium \in LeapPremiums, current_premium \in LeapPremiums :
         LET r == leap_strategy(
                      St, strategy_callback, day,
                      market_snapshot(market_data, volatility_data, day, prices),
                      premium, current_premium)
         IN /\ Install(r.st)
            /\ last' = IF r.error # "none"
                       THEN [op |-> r.op, ok |-> r.ok, error |-> r.error]
                       ELSE IF r.op = "none" THEN last ELSE [op |-> r.op, ok |-> r.ok]
            /\ pc' = IF r.error # "none" THEN "raised" ELSE "snapshot"
    /\ UNCHANGED <<transaction_log, current_date, day, market_data, volatility_data,
                   strategy_callback, prices, history, config, instances>>

LeapNext ==
    \/ NextDay
    \/ Leap
    \/ Snapshot
    \/ RunReturns

SpecLeap ==
    /\ LeapInit
    /\ [][LeapNext]_vars
    /\ WF_vars(NextDay)
    /\ WF_vars(Leap)
    /\ WF_vars(Snapshot)
    /\ WF_vars(RunReturns)

\* ---------------------------------------------------- the wheel callback
\* create_wheel_strategy(ticker, put_strike_factor, call_strike_factor,
\* days_to_expiration, interest_rate, min_premium_threshold): whole strike
\* factors, days of the calendar, the threshold in percent of the price
PutStrikeFactors == {1}
WheelDays == {1, 2}
PremiumThresholds == {0, 1, 100}
\* stand-ins for the Black-Scholes premiums, reals the model does not compute
WheelPremiums == {0, 1, 2}

\* The market of a wheel run: the cases of MarketData and a calendar of
\* three dates on which A falls and recovers, with volatility throughout.
WheelMarketData ==
    MarketData \cup
    {[market |-> [A |-> [readable |-> TRUE, Close |-> (1 :> 2 @@ 2 :> 1 @@ 3 :> 2)],
                  B |-> [readable |-> TRUE, Close |-> (1 :> 1 @@ 2 :> 1 @@ 3 :> 1)]],
      volatility |-> [A |-> (1 :> 30 @@ 2 :> 30 @@ 3 :> 30)]]}

\* a variant that sees no written contract
has_active_short_never(opts, ticker, option_type) == FALSE

\* any(opt.ticker == ticker and opt.option_type == ... and opt.position == 'short' ...)
has_active_short(opts, ticker, option_type) ==
    \E i \in DOMAIN opts : /\ opts[i].ticker = ticker
                           /\ opts[i].option_type = option_type
                           /\ opts[i].position = "short"

\* a variant that secures one contract more than the cash covers
cash_secured_contracts_one_more(c, put_strike) == c \div (put_strike * ContractSize) + 1

\* max_contracts = int(portfolio.cash / (put_strike * 100))
cash_secured_contracts(c, put_strike) == c \div (put_strike * ContractSize)

\* "premium / current_price >= min_premium_threshold", the threshold in percent
MeetsThreshold(premium, current_price, threshold) == premium * 100 >= threshold * current_price

\* wheel_strategy(date, portfolio, market_data, actions): nothing without a
\* volatility observation; else a put secured by the cash when no stock is
\* held and no put is written, or else a call on every full hundred of
\* shares when no call is written.  market_data['prices'][ticker] raises
\* KeyError without an entry; at a price of 0.0 the put strike is 0.0 and
\* cash / 0.0 raises ZeroDivisionError, as does S/K in the call's pricing.
wheel_strategy(st, cb, date, snapshot, premium) ==
    LET ticker == cb.ticker IN
    IF ticker \notin DOMAIN snapshot.prices
    THEN Outcome("KeyError", "none", TRUE, st)
    ELSE
      LET current_price == snapshot.prices[ticker]
          has_stock == ticker \in DOMAIN st.positions /\ st.positions[ticker].shares > 0
          active_put == has_active_short(st.options, ticker, "put")
          active_call == has_active_short(st.options, ticker, "call")
          vol_is_None == ~(/\ ticker \in DOMAIN snapshot.volatility
                           /\ DOMAIN snapshot.volatility[ticker] # {})
          nothing == Outcome("none", "none", TRUE, st)
      IN IF vol_is_None THEN nothing
         ELSE IF ~has_stock /\ ~active_put
         THEN LET put_strike == current_price * cb.put_strike_factor IN
              IF put_strike = 0 THEN Outcome("ZeroDivisionError", "none", TRUE, st)
              ELSE LET max_contracts == cash_secured_contracts(st.cash, put_strike) IN
                   IF max_contracts > 0 /\ MeetsThreshold(premium, current_price, cb.threshold)
                   THEN LET r == sell_put(st, ticker, put_strike, date + cb.days,
                                          max_contracts, premium)
                        IN Outcome("none", "sell_put", r.ok, r.st)
                   ELSE nothing
         ELSE IF has_stock /\ ~active_call
         THEN LET contracts == st.positions[ticker].shares \div ContractSize IN
              IF contracts > 0
              THEN IF current_price = 0 THEN Outcome("ZeroDivisionError", "none", TRUE, st)
                   ELSE IF MeetsThreshold(premium, current_price, cb.threshold)
                   THEN LET r == sell_call(st, ticker, current_price * cb.call_strike_factor,
                                           date + cb.days, contracts, premium)
                        IN Outcome("none", "sell_call", r.ok, r.st)
                   ELSE nothing
              ELSE nothing
         ELSE nothing

WheelInit ==
    /\ cash \in CallCashes
    /\ positions = << >>
    /\ options = << >>
    /\ transactions = << >>
    /\ transaction_log = "None"
    /\ current_date = 0
    /\ day = 0
    /\ last = [op |-> "none", ok |-> TRUE]
    /\ \E m \in WheelMarketData :
         /\ market_data = m.market
         /\ volatility_data = m.volatility
    /\ \E ticker \in Tickers, pf \in PutStrikeFactors, cf \in StrikeFactors,
          d \in WheelDays, th \in PremiumThresholds :
         strategy_callback = [name |-> "wheel", ticker |-> ticker, put_strike_factor |-> pf,
                              call_strike_factor |-> cf, days |-> d, threshold |-> th]
    /\ config = WholeCalendar(cash)
    /\ instances = << >>
    /\ pc = "loop"
    /\ prices = << >>
    /\ history = << >>

\* The whole callback; an exception it raises leaves run() through the loop.
Wheel ==
    /\ pc = "callback"
    /\ strategy_callback.name = "wheel"
    /\ \E premium \in WheelPremiums :
         LET r == wheel_strategy(
                      St, strategy_callback, day,
                      market_snapshot(market_data, volatility_data, day, prices), premium)
         IN /\ Install(r.st)
            /\ last' = IF r.error # "none"
                       THEN [op |-> r.op, ok |-> r.ok, error |-> r.error]
                       ELSE IF r.op = "none" THEN last ELSE [op |-> r.op, ok |-> r.ok]
            /\ pc' = IF r.error # "none" THEN "raised" ELSE "snapshot"
    /\ UNCHANGED <<transaction_log, current_date, day, market_data, volatility_data,
                   strategy_callback, prices, history, config, instances>>

WheelNext ==
    \/ NextDay
    \/ Wheel
    \/ Snapshot
    \/ RunReturns

SpecWheel ==
    /\ WheelInit
    /\ [][WheelNext]_vars
    /\ WF_vars(NextDay)
    /\ WF_vars(Wheel)
    /\ WF_vars(Snapshot)
    /\ WF_vars(RunReturns)

\* ------------------------------------------------------ the option pricer
\* The arguments the pricer is applied to.  The risk-free rate is 0, where
\* the discount factor exp(-r*t) is exactly 1; volatility is 0 or 100 %.
SpotPrices == 0..3
Strikes == 0..3
Sigmas == {0, 1}
Rates == {0}
Maturities == {0, 1}

\* np.log(S/K) for S, K >= 0, by class: S/K raises ZeroDivisionError at
\* K = 0; log(0) is -inf; otherwise the sign of the logarithm
LogMoneyness(S, K) ==
    IF K = 0 THEN "raised"
    ELSE IF S = 0 THEN "-inf"
    ELSE IF S < K THEN "neg"
    ELSE IF S = K THEN "zero"
    ELSE "pos"

\* d1 = (np.log(S/K) + (r + sigma**2/2)*t) / (sigma*np.sqrt(t)), by class.
\* A zero denominator does not raise in numpy: x/0.0 is -inf, nan or +inf
\* by the sign of x.  With a positive denominator d1 is finite unless the
\* logarithm is -inf.  Where a negative logarithm meets a positive drift
\* over a zero denominator the sign of x is not computed here.
d1_of(S, K, sigma, r, t) ==
    LET log == LogMoneyness(S, K)
        drift == (2 * r + sigma * sigma) * t
        denominator == sigma * t
    IN IF log = "raised" THEN "raised"
       ELSE IF log = "-inf" THEN "-inf"
       ELSE IF denominator = 0
            THEN IF log = "pos" THEN "+inf"
                 ELSE IF log = "zero" THEN (IF drift > 0 THEN "+inf" ELSE "nan")
                 ELSE IF drift > 0 THEN "finite"
                 ELSE "-inf"
            ELSE "finite"

\* what a call of the pricer yields: an exception, NaN, a number the model
\* computes exactly (norm.cdf is 0 or 1 at an infinite d1), or a real
\* Black-Scholes value the model does not compute
Raised == [kind |-> "raised", value |-> 0]
NaN == [kind |-> "nan", value |-> 0]
Exact(v) == [kind |-> "exact", value |-> v]
RealValue == [kind |-> "real", value |-> 0]

\* C = S*norm.cdf(d1) - K*np.exp(-r*t)*norm.cdf(d2); d2 = d1 - sigma*sqrt(t)
\* is infinite or nan exactly when d1 is
black_scholes_call(S, K, sigma, r, t) ==
    LET d1 == d1_of(S, K, sigma, r, t) IN
      IF d1 = "raised" THEN Raised
      ELSE IF d1 = "nan" THEN NaN
      ELSE IF d1 = "-inf" THEN Exact(S * 0 - K * 0)
      ELSE IF d1 = "+inf" THEN Exact(S * 1 - K * 1)
      ELSE RealValue

\* P = K*np.exp(-r*t)*norm.cdf(-d2) - S*norm.cdf(-d1)
black_scholes_put(S, K, sigma, r, t) ==
    LET d1 == d1_of(S, K, sigma, r, t) IN
      IF d1 = "raised" THEN Raised
      ELSE IF d1 = "nan" THEN NaN
      ELSE IF d1 = "-inf" THEN Exact(K * 1 - S * 1)
      ELSE IF d1 = "+inf" THEN Exact(K * 0 - S * 0)
      ELSE RealValue

\* ------------------------------------- construction and the head of run()
\* what a caller may pass to BacktestSimulation(...): no ticker, one or two;
\* a start and an end date in either order
Configs ==
    [tickers : {<< >>, <<"A">>, <<"A", "B">>},
     start_date : {1, 2},
     end_date : {1, 2, 3},
     initial_cash : InitialCashes]

Range(seq) == {seq[i] : i \in DOMAIN seq}

\* Before the constructor has run there is no Engine: the portfolio, history
\* and log variables hold nothing yet.
ConfigInit ==
    /\ config \in Configs
    /\ instances = << >>
    /\ \E t \in Tickers : strategy_callback = [name |-> "buy_and_hold", ticker |-> t]
    /\ pc = "init"
    /\ cash = 0
    /\ positions = << >>
    /\ options = << >>
    /\ transactions = << >>
    /\ transaction_log = "None"
    /\ current_date = 0
    /\ day = 0
    /\ last = [op |-> "none", ok |-> TRUE]
    /\ market_data = << >>
    /\ volatility_data = << >>
    /\ prices = << >>
    /\ history = << >>

\* BacktestSimulation.__init__: the arguments are stored as given and the
\* Portfolio, the history, the two data dicts and the log are created
BacktestSimulation_init ==
    /\ pc = "init"
    /\ cash' = config.initial_cash
    /\ positions' = << >>
    /\ options' = << >>
    /\ history' = << >>
    /\ market_data' = << >>
    /\ volatility_data' = << >>
    /\ transactions' = << >>
    /\ pc' = "constructed"
    /\ UNCHANGED <<transaction_log, current_date, day, last, strategy_callback, prices,
                   config, instances>>

\* yf.download(ticker, start=, end=): the rows of the range, the end left out
download(rows, start, end) == [d \in {e \in DOMAIN rows : start <= e /\ e < end} |-> rows[d]]

\* load_market_data: a frame and a volatility series for the tickers asked for
load_market_data(m, cfg) ==
    [market |-> [t \in Range(cfg.tickers) |->
                   [m.market[t] EXCEPT
                      !.Close = download(m.market[t].Close, cfg.start_date, cfg.end_date)]],
     volatility |-> [t \in Range(cfg.tickers) \cap DOMAIN m.volatility |->
                       download(m.volatility[t], cfg.start_date, cfg.end_date)]]

\* The head of run(): load_market_data, then the calendar of the first
\* ticker and the banner that prints its first and last date.  tickers[0]
\* raises IndexError on an empty list, trading_dates[0] on an empty frame.
RunLoads ==
    /\ pc = "constructed"
    /\ \E m \in MarketData :
         LET loaded == load_market_data(m, config) IN
           /\ market_data' = loaded.market
           /\ volatility_data' = loaded.volatility
           /\ pc' = IF config.tickers = << >> THEN "raised"
                    ELSE IF DOMAIN loaded.market[config.tickers[1]].Close = {}
                         THEN "raised"
                         ELSE "loop"
    /\ UNCHANGED <<cash, positions, options, transactions, transaction_log, current_date,
                   day, last, strategy_callback, prices, history, config, instances>>

\* ------------------------------------------------- print_performance_stats
\* returns = df['total_value'].pct_change().dropna(): one observation per
\* day after the first; 0/0 is NaN and dropped, x/0 is +-inf and kept
ValidReturns(h) ==
    {i \in 2..Len(h) : ~(h[i - 1].total_value = 0 /\ h[i].total_value = 0)}

\* returns.std(): the sample standard deviation, NaN below two observations
StdOf(n) == IF n < 2 THEN NaN ELSE RealValue

\* The stats dict the method builds and prints.  The Sharpe ratio is
\* mean/std*sqrt(252) when there is a return and 0 otherwise; volatility is
\* std*sqrt(252)*100; arithmetic on NaN gives NaN.  The method returns {}
\* on an empty history and otherwise ends after the prints, without a
\* return statement.
print_performance_stats(h, initial_cash) ==
    IF h = << >> THEN [returned |-> "{}", stats |-> << >>]
    ELSE LET n == Cardinality(ValidReturns(h))
             final_value == h[Len(h)].total_value
         IN [returned |-> "None",
             stats |-> [initial_value |-> Exact(initial_cash),
                        final_value |-> Exact(final_value),
                        total_return |-> IF initial_cash # 0 THEN RealValue
                                         ELSE IF final_value = 0 THEN NaN
                                         ELSE [kind |-> "inf", value |-> 0],
                        sharpe_ratio |-> IF n > 0 THEN StdOf(n) ELSE Exact(0),
                        max_drawdown |-> RealValue,
                        volatility |-> StdOf(n)]]

\* the caller asks for the statistics, before run() or after it has returned
PrintPerformanceStats ==
    /\ pc \in {"constructed", "returned"}
    /\ last' = [op |-> "print_performance_stats", ok |-> TRUE,
                result |-> print_performance_stats(history, config.initial_cash)]
    /\ UNCHANGED <<cash, positions, options, transactions, transaction_log, current_date,
                   day, market_data, volatility_data, strategy_callback, pc, prices,
                   history, config, instances>>

ConfigNext ==
    \/ BacktestSimulation_init
    \/ RunLoads
    \/ NextDay
    \/ BuyAndHold
    \/ Snapshot
    \/ RunReturns
    \/ PrintPerformanceStats

SpecConfig ==
    /\ ConfigInit
    /\ [][ConfigNext]_vars
    /\ WF_vars(BacktestSimulation_init)
    /\ WF_vars(RunLoads)
    /\ WF_vars(NextDay)
    /\ WF_vars(BuyAndHold)
    /\ WF_vars(Snapshot)
    /\ WF_vars(RunReturns)


\* For strictly positive arguments d1 and d2 are finite reals the model does
\* not compute from S, K, sigma and t; the prices are then taken at every
\* pair d2 < d1 of a small table of norm.cdf, in thousandths (the table is
\* the normal distribution's at -2..2, rounded).
CdfArguments == -2..2

norm_cdf(d) ==
    CASE d = -2 -> 23
      [] d = -1 -> 159
      [] d = 0 -> 500
      [] d = 1 -> 841
      [] d = 2 -> 977

\* C = S*norm.cdf(d1) - K*np.exp(-r*t)*norm.cdf(d2), in thousandths, at the
\* rate 0 where the discount factor is 1
call_at(S, K, d1, d2) == S * norm_cdf(d1) - K * 1 * norm_cdf(d2)

\* a variant of the put that takes norm.cdf at d2 and d1, not at -d2 and -d1
put_at_unnegated(S, K, d1, d2) == K * 1 * norm_cdf(d2) - S * norm_cdf(d1)

\* P = K*np.exp(-r*t)*norm.cdf(-d2) - S*norm.cdf(-d1)
put_at(S, K, d1, d2) == K * 1 * norm_cdf(-d2) - S * norm_cdf(-d1)

\* -------------------------------------------------- the pricer's callers
\* a caller applies the pricer; last holds the call and what it yielded
PriceCall ==
    \E S \in SpotPrices, K \in Strikes, sigma \in Sigmas, r \in Rates, t \in Maturities :
      /\ last' = [op |-> "black_scholes_call", ok |-> TRUE,
                  S |-> S, K |-> K, sigma |-> sigma, r |-> r, t |-> t,
                  result |-> black_scholes_call(S, K, sigma, r, t)]
      /\ UNCHANGED <<cash, positions, options, transactions, transaction_log,
                     current_date, day>>
      /\ UNCHANGED run_vars

PricePut ==
    \E S \in SpotPrices, K \in Strikes, sigma \in Sigmas, r \in Rates, t \in Maturities :
      /\ last' = [op |-> "black_scholes_put", ok |-> TRUE,
                  S |-> S, K |-> K, sigma |-> sigma, r |-> r, t |-> t,
                  result |-> black_scholes_put(S, K, sigma, r, t)]
      /\ UNCHANGED <<cash, positions, options, transactions, transaction_log,
                     current_date, day>>
      /\ UNCHANGED run_vars

\* a call and a put are priced on the same positive arguments
PriceCallAndPut ==
    \E S \in SpotPrices \ {0}, K \in Strikes \ {0}, d1 \in CdfArguments, d2 \in CdfArguments :
      /\ d2 < d1
      /\ last' = [op |-> "call and put", ok |-> TRUE, S |-> S, K |-> K, d1 |-> d1, d2 |-> d2,
                  call |-> call_at(S, K, d1, d2), put |-> put_at(S, K, d1, d2)]
      /\ UNCHANGED <<cash, positions, options, transactions, transaction_log,
                     current_date, day>>
      /\ UNCHANGED run_vars

PricerNext ==
    \/ PriceCall
    \/ PricePut
    \/ PriceCallAndPut

SpecPricer == Init /\ [][PricerNext]_vars

\* ================================================================ claims
\* the arguments the Strategy may pass
StockArgs == [ticker : Tickers, shares : ShareCounts, price : Prices]
OptionArgs ==
    {[ticker |-> c.ticker, strike |-> c.strike, expiration |-> c.expiration,
      contracts |-> n, premium |-> p] :
        c \in OptionChain, n \in ContractCounts, p \in Premiums}

\* shares of a ticker held in a positions mapping (0 when it has no Position)
Held(pos, t) == IF t \in DOMAIN pos THEN pos[t].shares ELSE 0

\* P holds of what every operation returns and leaves when it is called on
\* the current state with any of the arguments
EveryResult(P(_)) ==
    /\ \A a \in StockArgs :
         /\ P(buy_stock(St, a.ticker, a.shares, a.price))
         /\ P(sell_stock(St, a.ticker, a.shares, a.price))
    /\ \A a \in OptionArgs :
         /\ P(buy_call(St, a.ticker, a.strike, a.expiration, a.contracts, a.premium))
         /\ P(sell_call(St, a.ticker, a.strike, a.expiration, a.contracts, a.premium))
         /\ P(sell_put(St, a.ticker, a.strike, a.expiration, a.contracts, a.premium))
         /\ P(buy_put(St, a.ticker, a.strike, a.expiration, a.contracts, a.premium))
         /\ P(close_call(St, a.ticker, a.strike, a.expiration, a.contracts, a.premium))
         /\ P(close_put(St, a.ticker, a.strike, a.expiration, a.contracts, a.premium))

CashNotNegative(r) == r.st.cash >= 0
UnchangedOnFailure(r) == ~r.ok => r.st = St

\* C1: starting from cash >= 0, cash is never negative in any state the
\* Engine and the Strategy's Executor calls (positive counts, non-negative
\* prices and premiums) reach, nor after any further Executor call.
C1_CashNeverNegative ==
    /\ cash >= 0
    /\ EveryResult(CashNotNegative)

\* C1 witness: a buy has spent the cash down to exactly 0.
C1_Witness ==
    /\ last.op \in {"buy_stock", "buy_call", "buy_put"}
    /\ last.ok
    /\ cash = 0

\* C2: an Executor operation that returns failure leaves cash, every
\* Position, the option collection and the transaction log as they were.
C2_FailureChangesNothing ==
    EveryResult(UnchangedOnFailure)

\* C2 witness: a call has failed on a portfolio that holds stock and has a
\* logged transaction.
C2_Witness ==
    /\ ~last.ok
    /\ last.op \in {"buy_stock", "sell_stock", "sell_call", "buy_call", "buy_put",
                    "close_call", "close_put"}
    /\ DOMAIN positions # {}
    /\ Len(transactions) > 0

\* C3: buy_stock succeeds iff shares*price <= cash; on success cash falls by
\* shares*price, the held shares rise by shares, and
\* new_avg*new_shares = old_avg*old_shares + shares*price.
C3_BuyStock ==
    \A a \in StockArgs :
      LET r == buy_stock(St, a.ticker, a.shares, a.price)
          cost == a.shares * a.price
          old == Held(positions, a.ticker)
          oldNum == IF old = 0 THEN 0 ELSE positions[a.ticker].avg_cost.num
          oldDen == IF old = 0 THEN 1 ELSE positions[a.ticker].avg_cost.den
      IN /\ r.ok <=> cost <= cash
         /\ r.ok =>
              /\ r.st.cash = cash - cost
              /\ a.ticker \in DOMAIN r.st.positions
              /\ r.st.positions[a.ticker].shares = old + a.shares
              /\ LET new == r.st.positions[a.ticker] IN
                   new.avg_cost.num * new.shares * oldDen
                     = (oldNum * old + cost * oldDen) * new.avg_cost.den

\* C3 witness: a second purchase at another price has been averaged into
\* an existing Position (100 @ 1 and 100 @ 2 give 3/2).
C3_Witness ==
    /\ last.op = "buy_stock"
    /\ last.ok
    /\ \E t \in DOMAIN positions :
         positions[t].shares = 200 /\ positions[t].avg_cost = [num |-> 3, den |-> 2]

\* C4: sell_stock succeeds iff the ticker has a Position with at least the
\* requested shares; on success cash rises by shares*price, the held shares
\* fall by shares and the average cost of the Position is unchanged.
C4_SellStock ==
    \A a \in StockArgs :
      LET r == sell_stock(St, a.ticker, a.shares, a.price)
      IN /\ r.ok <=> (a.ticker \in DOMAIN positions /\ positions[a.ticker].shares >= a.shares)
         /\ r.ok =>
              /\ r.st.cash = cash + a.shares * a.price
              /\ Held(r.st.positions, a.ticker) = Held(positions, a.ticker) - a.shares
              /\ a.ticker \in DOMAIN r.st.positions =>
                   r.st.positions[a.ticker].avg_cost = positions[a.ticker].avg_cost

\* C4 witness: part of a Position has been sold and the rest is still held.
C4_Witness ==
    /\ last.op = "sell_stock"
    /\ last.ok
    /\ \E t \in DOMAIN positions :
         /\ positions[t].shares = 100
         /\ transactions[Len(transactions)].ticker = t
         /\ transactions[Len(transactions)].action = "SELL_STOCK"

\* C5: a Position leaves the portfolio iff a sell drives its shares to
\* exactly 0: no Position with 0 shares is ever present, a sell_stock of all
\* the held shares deletes the Position and any other sell_stock keeps it,
\* and a step that removes a Position logs a SELL_STOCK of that ticker.
NoEmptyPosition(r) == \A t \in DOMAIN r.st.positions : r.st.positions[t].shares # 0

C5_PositionRemoval ==
    /\ [](/\ \A t \in DOMAIN positions : positions[t].shares # 0
          /\ EveryResult(NoEmptyPosition)
          /\ \A a \in StockArgs :
               LET r == sell_stock(St, a.ticker, a.shares, a.price) IN
                 /\ DOMAIN positions \ {a.ticker} \subseteq DOMAIN r.st.positions
                 /\ r.ok => (a.ticker \notin DOMAIN r.st.positions
                               <=> positions[a.ticker].shares = a.shares))
    /\ [][\A t \in DOMAIN positions :
            t \notin DOMAIN positions' =>
              \E i \in (Len(transactions) + 1)..Len(transactions') :
                 transactions'[i].action = "SELL_STOCK" /\ transactions'[i].ticker = t]_vars

\* C5 witness: a sell_stock of all the held shares has removed the Position.
C5_Witness ==
    /\ last.op = "sell_stock"
    /\ last.ok
    /\ transactions[Len(transactions)].action = "SELL_STOCK"
    /\ transactions[Len(transactions)].ticker \notin DOMAIN positions

\* C6: sell_call succeeds iff the held shares are >= contracts*100; on
\* success cash rises by premium*contracts*100 and one short call with the
\* given strike, expiration and count is appended; positions are unchanged.
C6_SellCall ==
    \A a \in OptionArgs :
      LET r == sell_call(St, a.ticker, a.strike, a.expiration, a.contracts, a.premium)
          n == Len(options)
      IN /\ r.ok <=> Held(positions, a.ticker) >= a.contracts * 100
         /\ r.ok =>
              /\ r.st.cash = cash + a.premium * a.contracts * 100
              /\ r.st.positions = positions
              /\ Len(r.st.options) = n + 1
              /\ SubSeq(r.st.options, 1, n) = options
              /\ LET o == r.st.options[n + 1] IN
                   /\ o.ticker = a.ticker
                   /\ o.strike = a.strike
                   /\ o.expiration_date = a.expiration
                   /\ o.contracts = a.contracts
                   /\ o.option_type = "call"
                   /\ o.position = "short"

\* C6 witness: a covered call has been sold against held shares.
C6_Witness ==
    /\ last.op = "sell_call"
    /\ last.ok
    /\ Len(options) > 0
    /\ LET o == options[Len(options)] IN
         /\ o.option_type = "call"
         /\ o.position = "short"
         /\ Held(positions, o.ticker) >= o.contracts * 100

\* C7: sell_put has no covering check: in every state it succeeds, cash
\* rises by premium*contracts*100 and one short put is appended.
C7_SellPut ==
    \A a \in OptionArgs :
      LET r == sell_put(St, a.ticker, a.strike, a.expiration, a.contracts, a.premium)
          n == Len(options)
      IN /\ r.ok
         /\ r.st.cash = cash + a.premium * a.contracts * 100
         /\ r.st.positions = positions
         /\ Len(r.st.options) = n + 1
         /\ SubSeq(r.st.options, 1, n) = options
         /\ LET o == r.st.options[n + 1] IN
              /\ o.ticker = a.ticker
              /\ o.strike = a.strike
              /\ o.expiration_date = a.expiration
              /\ o.contracts = a.contracts
              /\ o.option_type = "put"
              /\ o.position = "short"

\* C7 witness: a put has been sold from cash 0 with no Position, and its
\* strike obligation exceeds the cash.
C7_Witness ==
    /\ last.op = "sell_put"
    /\ last.ok
    /\ DOMAIN positions = {}
    /\ Len(options) = 1
    /\ cash = options[1].premium_received
    /\ options[1].strike * options[1].contracts * 100 > cash

\* C8: buy_call and buy_put succeed iff premium*contracts*100 <= cash; on
\* success cash falls by that amount and one long contract of the kind is
\* appended with premium_received = -(that amount) < 0; positions unchanged.
LongOpened(r, a, kind) ==
    LET amount == a.premium * a.contracts * 100
        n == Len(options)
    IN /\ r.ok <=> amount <= cash
       /\ r.ok =>
            /\ r.st.cash = cash - amount
            /\ r.st.positions = positions
            /\ Len(r.st.options) = n + 1
            /\ SubSeq(r.st.options, 1, n) = options
            /\ LET o == r.st.options[n + 1] IN
                 /\ o.ticker = a.ticker
                 /\ o.strike = a.strike
                 /\ o.expiration_date = a.expiration
                 /\ o.contracts = a.contracts
                 /\ o.option_type = kind
                 /\ o.position = "long"
                 /\ o.premium_received = 0 - amount
                 /\ o.premium_received < 0

C8_BuyOption ==
    \A a \in OptionArgs :
      /\ LongOpened(buy_call(St, a.ticker, a.strike, a.expiration, a.contracts, a.premium), a, "call")
      /\ LongOpened(buy_put(St, a.ticker, a.strike, a.expiration, a.contracts, a.premium), a, "put")

\* C8 witness: a long option has been bought with cash.
C8_Witness ==
    /\ last.op \in {"buy_call", "buy_put"}
    /\ last.ok
    /\ Len(options) > 0
    /\ options[Len(options)].position = "long"
    /\ options[Len(options)].premium_received < 0

\* C9: close_call / close_put succeed iff a long contract of the kind with
\* the same ticker, strike and expiration and a count >= the requested one is
\* held; on success cash rises by premium*contracts*100 and the first such
\* contract has its count reduced, being removed exactly when it reaches 0;
\* every other contract is left as it was.
Closed(r, a, kind) ==
    LET m == {i \in 1..Len(options) :
                /\ options[i].position = "long"
                /\ options[i].option_type = kind
                /\ options[i].ticker = a.ticker
                /\ options[i].strike = a.strike
                /\ options[i].expiration_date = a.expiration
                /\ options[i].contracts >= a.contracts}
    IN /\ r.ok <=> m # {}
       /\ r.ok =>
            LET first == CHOOSE i \in m : \A j \in m : i <= j IN
            /\ r.st.cash = cash + a.premium * a.contracts * 100
            /\ r.st.positions = positions
            /\ IF options[first].contracts = a.contracts
               THEN r.st.options = SubSeq(options, 1, first - 1)
                                     \o SubSeq(options, first + 1, Len(options))
               ELSE /\ Len(r.st.options) = Len(options)
                    /\ \A i \in 1..Len(options) :
                         IF i = first
                         THEN r.st.options[i] =
                                [options[i] EXCEPT !.contracts = options[i].contracts - a.contracts]
                         ELSE r.st.options[i] = options[i]

C9_CloseOption ==
    \A a \in OptionArgs :
      /\ Closed(close_call(St, a.ticker, a.strike, a.expiration, a.contracts, a.premium), a, "call")
      /\ Closed(close_put(St, a.ticker, a.strike, a.expiration, a.contracts, a.premium), a, "put")

\* C9 witness: part of a long contract has been closed and the rest is held.
C9_Witness ==
    /\ last.op \in {"close_call", "close_put"}
    /\ last.ok
    /\ Len(options) = 1
    /\ options[1].position = "long"
    /\ options[1].contracts = 1
    /\ options[1].premium_received = 0 - 200

\* C10: an Executor operation called by the Strategy appends exactly one
\* record to the log when it returns success and none when it returns
\* failure.
LogsOnce(r) ==
    IF r.ok
    THEN /\ Len(r.st.log) = Len(transactions) + 1
         /\ SubSeq(r.st.log, 1, Len(transactions)) = transactions
    ELSE r.st.log = transactions

C10_OneRecordPerSuccess == day >= 1 => EveryResult(LogsOnce)

\* C10 witness: one call has succeeded and logged one record, and a later
\* call has failed and logged none.
C10_Witness ==
    /\ last.op # "none"
    /\ ~last.ok
    /\ Len(transactions) = 1
    /\ transactions[1].date = current_date

\* ------------------------------------------------ expiration handling
\* the price maps _get_current_prices may hand to the expiration step
PriceMaps == [Tickers -> ClosePrices]

\* what _handle_option_expirations leaves when the Engine runs it on the
\* current portfolio for the next date with the given prices
Expired(current_prices) ==
    handle_option_expirations(
        [St EXCEPT !.transaction_log = "transactions", !.current_date = day + 1],
        day + 1, current_prices)

\* a written contract that is assigned at expiration on this date
Assigned(opt, date, current_prices) ==
    /\ date >= opt.expiration_date
    /\ opt.position = "short"
    /\ \/ opt.option_type = "call" /\ current_prices[opt.ticker] >= opt.strike
       \/ opt.option_type = "put" /\ current_prices[opt.ticker] <= opt.strike

\* the shares of ticker t an unchecked exercise of every assigned contract
\* moves: bought for a put, sold for a call
RECURSIVE ExercisedShares(_, _, _, _)
ExercisedShares(opts, date, current_prices, t) ==
    IF opts = << >> THEN 0
    ELSE LET opt == Head(opts)
             n == IF Assigned(opt, date, current_prices) /\ opt.ticker = t
                  THEN IF opt.option_type = "put"
                       THEN opt.contracts * ContractSize
                       ELSE 0 - opt.contracts * ContractSize
                  ELSE 0
         IN n + ExercisedShares(Tail(opts), date, current_prices, t)

\* the cash an unchecked exercise of every assigned contract moves:
\* credited at the strike for a call, debited at the strike for a put
RECURSIVE ExercisedCash(_, _, _)
ExercisedCash(opts, date, current_prices) ==
    IF opts = << >> THEN 0
    ELSE LET opt == Head(opts)
             n == IF Assigned(opt, date, current_prices)
                  THEN IF opt.option_type = "call"
                       THEN opt.contracts * ContractSize * opt.strike
                       ELSE 0 - opt.contracts * ContractSize * opt.strike
                  ELSE 0
         IN n + ExercisedCash(Tail(opts), date, current_prices)

\* C11: forced exercise bypasses the coverage and affordability checks: for
\* every assigned short call exactly contracts*100 shares are sold at the
\* strike and cash is credited even if fewer shares are held, and for every
\* assigned short put exactly contracts*100 shares are bought at the strike
\* and cash is debited even if the cost exceeds cash.
C11_ForcedExerciseBypassesChecks ==
    day + 1 \in TradingDates =>
        \A current_prices \in PriceMaps :
            LET after == Expired(current_prices) IN
            /\ after.cash = cash + ExercisedCash(options, day + 1, current_prices)
            /\ \A t \in Tickers :
                 Held(after.positions, t) =
                     Held(positions, t) + ExercisedShares(options, day + 1, current_prices, t)

\* the log is a sequence of records in which every EXERCISED record is
\* directly followed by the record of its stock trade
TradeFollows(log) ==
    \A i \in 1..Len(log) :
        /\ log[i].action = "CALL_EXERCISED" =>
             /\ i < Len(log)
             /\ log[i + 1].action = "SELL_STOCK"
             /\ log[i + 1].ticker = log[i].ticker
             /\ log[i + 1].shares = log[i].shares_sold
             /\ log[i + 1].price = log[i].strike
        /\ log[i].action = "PUT_EXERCISED" =>
             /\ i < Len(log)
             /\ log[i + 1].action = "BUY_STOCK"
             /\ log[i + 1].ticker = log[i].ticker
             /\ log[i + 1].shares = log[i].shares_bought
             /\ log[i + 1].price = log[i].strike

\* C12: every exercise at expiration appends an EXERCISED record and the
\* record of the underlying stock trade, adjacent and in that order; no
\* EXERCISED record is in the log without the trade record right after it.
C12_ExercisedThenTrade == TradeFollows(transactions)

\* the contracts that vanish on this date: expired and not assigned
Vanishes(opt, date, current_prices) ==
    /\ date >= opt.expiration_date
    /\ ~Assigned(opt, date, current_prices)

\* the options of the current portfolio without the contracts that vanish
WithoutVanishing(current_prices) ==
    SelectSeq(options, LAMBDA opt : ~Vanishes(opt, day + 1, current_prices))

\* C13: a long option or an out-of-the-money short option that expires is
\* removed and nothing else changes: when only such contracts expire, cash,
\* every Position and the log are as before; and in general the handling
\* leaves what it leaves when those contracts are not in the portfolio.
C13_ExpiresWorthless ==
    day + 1 \in TradingDates =>
        \A current_prices \in PriceMaps :
            LET after == Expired(current_prices)
                st == [St EXCEPT !.transaction_log = "transactions",
                                 !.current_date = day + 1]
            IN
            /\ after = handle_option_expirations(
                           [st EXCEPT !.options = WithoutVanishing(current_prices)],
                           day + 1, current_prices)
            /\ (\A i \in 1..Len(options) :
                    ~Assigned(options[i], day + 1, current_prices)) =>
                 /\ after.cash = cash
                 /\ after.positions = positions
                 /\ after.log = transactions
                 /\ \A i \in 1..Len(after.options) :
                      after.options[i].expiration_date > day + 1

\* C13 witness: the Engine has just handled the expirations of a day on
\* which the one contract of the portfolio, bought or written the day
\* before, expired; it is gone and the log holds only its opening record.
C13_Witness ==
    /\ day = 2
    /\ last.op = "none"
    /\ Len(transactions) = 1
    /\ transactions[1].action \in {"BUY_CALL", "BUY_PUT", "SELL_PUT"}
    /\ transactions[1].date = 1
    /\ transactions[1].expiration <= day
    /\ options = << >>
    /\ positions = << >>

PriceDicts == UNION {[D -> ClosePrices] : D \in SUBSET Tickers}

\* sign * intrinsic * contracts * 100 summed over the contracts that expire
\* after the date, with S = prices.get(ticker, 0)
RECURSIVE IntrinsicSum(_, _, _)
IntrinsicSum(opts, date, current_prices) ==
    IF opts = << >> THEN 0
    ELSE LET opt == Head(opts)
             S == DictGet(current_prices, opt.ticker, 0)
             K == opt.strike
             intrinsic == IF opt.option_type = "call" THEN Max(0, S - K) ELSE Max(0, K - S)
             sign == IF opt.position = "long" THEN 1 ELSE 0 - 1
             term == IF opt.expiration_date > date
                     THEN sign * intrinsic * opt.contracts * 100
                     ELSE 0
         IN term + IntrinsicSum(Tail(opts), date, current_prices)

\* C18: options_value(date, prices) with no volatility is the sum over the
\* contracts expiring after the date of sign * intrinsic * contracts * 100,
\* for every price including S = 0, where a put's intrinsic value is K;
\* this is stated of both implementations of the Portfolio.
C18_OptionsValueIsIntrinsic ==
    \A date \in TradingDates, current_prices \in PriceDicts :
        /\ get_options_value(options, date, current_prices)
               = IntrinsicSum(options, date, current_prices)
        /\ portfolio_get_options_value(options, date, current_prices)
               = IntrinsicSum(options, date, current_prices)

\* ------------------------------------------------------------- the run
Last(h) == h[Len(h)]

\* the calendar dates before a date, and up to it
DatesBefore(date) == {d \in trading_dates : d < date}
DatesUpTo(date) == {d \in trading_dates : d <= date}

\* the value of the shares held at the day's prices, a ticker without a
\* price counting 0
ShareValue(pos, current_prices) ==
    Held(pos, "A") * DictGet(current_prices, "A", 0)
    + Held(pos, "B") * DictGet(current_prices, "B", 0)

\* C15: on every day the Engine sets the log's day marker, resolves the
\* prices, handles the expirations, invokes the Strategy and appends the
\* snapshot, once each and in this order: while the callback runs the marker
\* and the prices are those of the day and the day has no snapshot yet; the
\* callback is entered with no contract expiring on or before the day; the
\* portfolio and the log change only before the callback returns; the
\* snapshot is appended after it, once, and it is that of the portfolio as
\* the day's trades left it.
C15_DayOrder ==
    /\ [](pc \in {"callback", "snapshot"} =>
            /\ day \in trading_dates
            /\ transaction_log = "transactions"
            /\ current_date = day
            /\ prices = get_current_prices(market_data, day)
            /\ Len(history) = Cardinality(DatesBefore(day)))
    /\ [](pc \in {"loop", "returned"} =>
            /\ Len(history) = Cardinality(DatesUpTo(day))
            /\ day >= 1 =>
                 /\ Last(history).date = day
                 /\ Last(history).cash = cash
                 /\ Last(history).stock_value = ShareValue(positions, prices))
    /\ [][(pc = "loop" /\ pc' = "callback") =>
            \A i \in 1..Len(options') : options'[i].expiration_date > day']_vars
    /\ [][(cash' # cash \/ positions' # positions \/ options' # options
             \/ transactions' # transactions \/ prices' # prices
             \/ current_date' # current_date) => pc' = "callback"]_vars
    /\ [][history' # history =>
            /\ pc = "snapshot"
            /\ Len(history') = Len(history) + 1
            /\ SubSeq(history', 1, Len(history)) = history]_vars

\* C15 witness: the second day is done; a put written on the first day
\* expired on the second before the callback ran, the callback traded, and
\* the snapshot of the day shows the cash the trade left.
C15_Witness ==
    /\ pc = "loop"
    /\ day = 2
    /\ Len(history) = 2
    /\ Len(transactions) = 2
    /\ transactions[1].action = "SELL_PUT"
    /\ transactions[1].expiration = 2
    /\ transactions[2].action = "BUY_STOCK"
    /\ transactions[2].date = 2
    /\ options = << >>
    /\ history[2].cash = cash
    /\ history[2].cash # history[1].cash

\* how far run() has come: three steps a date (the head of the iteration,
\* the callback's return, the snapshot) and the return at the end
RunRank ==
    LET done == Cardinality(DatesUpTo(day)) IN
    CASE pc = "loop" -> 3 * done
      [] pc = "callback" -> 3 * (done - 1) + 1
      [] pc = "snapshot" -> 3 * (done - 1) + 2
      [] OTHER -> 3 * Cardinality(trading_dates) + 1

\* run() can take its next step: the callback can return, the snapshot can
\* be appended, and the loop has a next date or run() can return
CanStep ==
    /\ pc \in {"loop", "callback", "snapshot", "returned"}
    /\ pc = "callback" => ENABLED CallbackReturns
    /\ pc = "snapshot" => ENABLED Snapshot
    /\ pc = "loop" => (RemainingDates # {} \/ ENABLED RunReturns)

\* C16: a run over a calendar of n dates takes each date once, in order,
\* and ends with n snapshots, one per date, their dates the calendar dates
\* in strictly increasing order; it terminates: until it has returned a
\* step of run() is possible, and every step brings it nearer the return.
C16_OneSnapshotPerDate ==
    /\ [](\A i \in 1..Len(history) : history[i].date \in trading_dates)
    /\ [](\A i, j \in 1..Len(history) : i < j => history[i].date < history[j].date)
    /\ [](pc = "returned" =>
            /\ Len(history) = Cardinality(trading_dates)
            /\ {history[i].date : i \in 1..Len(history)} = trading_dates)
    /\ [][day' # day =>
            /\ day' \in trading_dates
            /\ day' > day
            /\ ~ \E d \in trading_dates : day < d /\ d < day']_vars
    /\ []CanStep
    /\ [](RunRank <= 3 * Cardinality(trading_dates) + 1)
    /\ [][pc' # pc => RunRank' > RunRank]_vars

\* C16 witness: run() has returned after two days on which trades were made
C16_Witness ==
    /\ pc = "returned"
    /\ Cardinality(trading_dates) = 2
    /\ Len(history) = 2
    /\ Len(transactions) = 2
    /\ transactions[1].date = 1
    /\ transactions[2].date = 2

\* C17: in every snapshot total_value is cash + stock_value + options_value
\* of the same snapshot, its cash the portfolio's cash after the strategy
\* step and its stock_value the shares held times the day's prices.
C17_SnapshotTotal ==
    /\ [](\A i \in 1..Len(history) :
            history[i].total_value =
                history[i].cash + history[i].stock_value + history[i].options_value)
    /\ [][history' # history =>
            /\ Last(history').cash = cash
            /\ Last(history').stock_value = ShareValue(positions, prices)
            /\ Last(history').options_value = IntrinsicSum(options, day, prices)]_vars

\* C17 witness: a snapshot was taken with shares held and a written put in
\* the money, so neither the stock value nor the options value is 0
C17_Witness ==
    /\ pc = "loop"
    /\ history # << >>
    /\ Last(history).stock_value > 0
    /\ Last(history).options_value < 0
    /\ Last(history).cash > 0

\* a volatility observation dated on or before the date exists in the first
\* ticker's series
VolatilityObserved(date) == \E d \in DOMAIN volatility_data[tickers[1]] : d <= date

\* the contracts with time to run on the date
Running(date) == SelectSeq(options, LAMBDA opt : opt.expiration_date > date)

\* C19: the options_value the Engine records is computed with the latest
\* volatility observation whenever one exists and is the intrinsic value
\* only when none does.  The Option Pricer's value of a call with positive
\* S, K, sigma and t is above its intrinsic value, so with an observation a
\* portfolio whose running contracts are written calls on priced tickers is
\* recorded strictly below its intrinsic-only value.
C19_RecordedWithVolatility ==
    (pc = "loop" /\ day >= 1) =>
        LET running == Running(day) IN
        /\ ~VolatilityObserved(day) =>
             Last(history).options_value = IntrinsicSum(options, day, prices)
        /\ (/\ VolatilityObserved(day)
            /\ running # << >>
            /\ \A i \in 1..Len(running) :
                 /\ running[i].option_type = "call"
                 /\ running[i].position = "short"
                 /\ DictGet(prices, running[i].ticker, 0) > 0) =>
             Last(history).options_value < IntrinsicSum(options, day, prices)

\* the price the map of a date is to hold for a frame: the close of the
\* date, else the most recent close before it, else 0
ResolvedPrice(df, date) ==
    LET prior == {d \in DOMAIN df.Close : d <= date} IN
    IF ~df.readable \/ prior = {} THEN 0
    ELSE df.Close[CHOOSE d \in prior : \A e \in prior : d >= e]

\* C20: missing price data is never fatal: the day's price map holds for
\* every ticker its close, else the close carried forward, else 0 (also
\* when resolving it raises), and the run completes the day, no exception
\* leaving run().
C20_MissingPriceNotFatal ==
    /\ pc # "raised"
    /\ pc \in {"callback", "snapshot"} =>
         \A t \in Tickers :
             /\ t \in DOMAIN prices
             /\ prices[t] = ResolvedPrice(market_data[t], day)

\* ------------------------------------------------------- the market data
\* the market data and the volatility data without the rows after a date
RowsUntil(md, date) == [t \in DOMAIN md |-> [md[t] EXCEPT !.Close = Until(md[t].Close, date)]]
SeriesUntil(vd, date) == [t \in DOMAIN vd |-> Until(vd[t], date)]

\* C21: no look-ahead: on day d the market snapshot handed to the Strategy
\* holds only price and volatility observations dated on or before d, the
\* current price of a ticker is its close of d or else its most recent close
\* before d, and nothing dated after d has any influence: prices and
\* snapshot are the same when every later row is taken out of the data.
C21_NoLookAhead ==
    pc \in {"callback", "snapshot"} =>
        LET snap == market_snapshot(market_data, volatility_data, day, prices) IN
        /\ \A t \in DOMAIN snap.data : \A d \in DOMAIN snap.data[t].Close : d <= day
        /\ \A t \in DOMAIN snap.volatility : \A d \in DOMAIN snap.volatility[t] : d <= day
        /\ \A t \in DOMAIN prices :
             market_data[t].readable =>
                 LET closes == market_data[t].Close IN
                 \E d \in DOMAIN closes :
                     /\ d <= day
                     /\ prices[t] = closes[d]
                     /\ \A e \in DOMAIN closes : e <= day => e <= d
        /\ prices = get_current_prices(RowsUntil(market_data, day), day)
        /\ snap = market_snapshot(RowsUntil(market_data, day),
                                  SeriesUntil(volatility_data, day), day, prices)

\* C21 witness: the callback of the first day runs while the data hold a
\* later close of the first ticker that differs from the day's
C21_Witness ==
    /\ pc = "callback"
    /\ day = 1
    /\ prices["A"] = market_data["A"].Close[1]
    /\ 2 \in DOMAIN market_data["A"].Close
    /\ market_data["A"].Close[2] # market_data["A"].Close[1]
    /\ 2 \in DOMAIN volatility_data["A"]

\* ------------------------------------------------------------ the log
\* C22: the transaction log is append-only and chronological: a step leaves
\* the records it finds as and where they are, every record it appends, by
\* expiration handling or by an Executor call, carries the date of the day
\* being processed, and so the dates never decrease along the log.
C22_LogAppendOnly ==
    /\ [][/\ Len(transactions') >= Len(transactions)
          /\ SubSeq(transactions', 1, Len(transactions)) = transactions
          /\ \A i \in (Len(transactions) + 1)..Len(transactions') :
               transactions'[i].date = day']_vars
    /\ [](\A i, j \in 1..Len(transactions) :
            i < j => transactions[i].date <= transactions[j].date)

\* C22 witness: the log holds a record of the first day, then the exercise
\* record and the trade record the expiration handling of the second wrote
C22_Witness ==
    /\ Len(transactions) >= 3
    /\ transactions[1].date = 1
    /\ transactions[2].action = "PUT_EXERCISED"
    /\ transactions[2].date = 2
    /\ transactions[3].action = "BUY_STOCK"
    /\ transactions[3].date = 2

\* a configuration the Engine cannot run: no ticker, or the end before the start
Malformed(cfg) == cfg.tickers = << >> \/ cfg.end_date < cfg.start_date

\* the Portfolio, the history and the log exist once the constructor has run
Constructed == pc # "init"

\* C23: a malformed configuration (empty ticker list, end date before start
\* date) is rejected before any simulation state is created: with such a
\* configuration no Portfolio, history or log ever exists, no market data
\* is loaded and no day is processed.
C23_MalformedRejectedEarly ==
    Malformed(config) => ~Constructed /\ market_data = << >> /\ day = 0

\* the arguments of the last pricer call are degenerate
Degenerate == last.S <= 0 \/ last.K <= 0 \/ last.sigma <= 0 \/ last.t <= 0

\* C24: the pricer returns the defined value 0, without raising and without
\* NaN, for a call and for a put whenever any of S, K, sigma or t is <= 0.
C24_DegenerateYieldsZero ==
    (last.op \in {"black_scholes_call", "black_scholes_put"} /\ Degenerate)
        => last.result = Exact(0)

\* C25: round trip: for every portfolio state and every shares > 0 and
\* price > 0 with shares*price <= cash, buy_stock followed at once by
\* sell_stock of the same ticker, shares and price succeeds twice, returns
\* cash to exactly its value before and the ticker's share count to its
\* count before; the Position is absent again if it was absent before.
C25_RoundTrip ==
    \A a \in StockArgs :
      a.shares * a.price <= cash =>
        LET bought == buy_stock(St, a.ticker, a.shares, a.price)
            sold == sell_stock(bought.st, a.ticker, a.shares, a.price)
        IN /\ bought.ok
           /\ sold.ok
           /\ sold.st.cash = cash
           /\ Held(sold.st.positions, a.ticker) = Held(positions, a.ticker)
           /\ a.ticker \notin DOMAIN positions => a.ticker \notin DOMAIN sold.st.positions
           /\ \A t \in DOMAIN positions \ {a.ticker} :
                t \in DOMAIN sold.st.positions /\ sold.st.positions[t] = positions[t]

\* C25 witness: a buy and the sale of the same shares at the same price are
\* the whole log; the cash is back and no Position is left.
C25_Witness ==
    /\ Len(transactions) = 2
    /\ transactions[1].action = "BUY_STOCK"
    /\ transactions[2].action = "SELL_STOCK"
    /\ transactions[1].ticker = transactions[2].ticker
    /\ transactions[1].shares = transactions[2].shares
    /\ transactions[1].price = transactions[2].price
    /\ positions = << >>
    /\ cash = 300

\* C26: the valuation queries are pure.  The step of run() that calls
\* get_stock_value, get_options_value and get_total_value leaves cash, the
\* Positions, the options and the transaction log as they were, and the
\* same queries asked again after it, with the same date and prices, give
\* the values it recorded.
C26_ValuationIsPure ==
    [][pc = "snapshot" =>
         /\ UNCHANGED <<cash, positions, options, transactions>>
         /\ Last(history').stock_value = get_stock_value(positions', prices')
         /\ Last(history').options_value = get_options_value(options', day', prices')
         /\ Last(history').total_value =
                get_total_value(cash', positions', options', day', prices')]_vars

\* C26 witness: the valuations were taken of a portfolio with shares, an
\* open contract in the money and a logged transaction.
C26_Witness ==
    /\ pc = "loop"
    /\ history # << >>
    /\ Last(history).date = day
    /\ Last(history).stock_value > 0
    /\ Last(history).options_value # 0
    /\ options # << >>
    /\ transactions # << >>

\* C27: the statistics are returned as a record with initial value, final
\* value, total return, Sharpe ratio, maximum drawdown and volatility, and
\* both the Sharpe ratio and the volatility are 0 whenever the history gives
\* fewer than 2 valid day-over-day returns.
C27_SummaryStatistics ==
    last.op = "print_performance_stats" =>
        /\ last.result.returned = "stats"
        /\ DOMAIN last.result.stats =
              {"initial_value", "final_value", "total_return", "sharpe_ratio",
               "max_drawdown", "volatility"}
        /\ Cardinality(ValidReturns(history)) < 2 =>
              /\ last.result.stats.sharpe_ratio = Exact(0)
              /\ last.result.stats.volatility = Exact(0)

HoldTicker == strategy_callback.ticker

\* C29: under buy-and-hold the whole run holds at most one transaction, a
\* BUY_STOCK of floor(cash/price) shares of the strategy's ticker; it is
\* made on the first day on which the Position is empty and a share is
\* affordable, there is no Executor call on a day after it, and nothing is
\* ever sold.
C29_BuyAndHoldBuysOnce ==
    /\ [](/\ Len(transactions) <= 1
          /\ \A i \in 1..Len(transactions) :
               transactions[i].action = "BUY_STOCK" /\ transactions[i].ticker = HoldTicker
          /\ (pc = "callback" /\ transactions # << >>) =>
               ~buy_and_hold(St, HoldTicker, prices).called)
    /\ [][transactions' # transactions =>
            /\ pc = "callback"
            /\ HoldTicker \notin DOMAIN positions
            /\ Last(transactions') =
                 StockRecord(day, "BUY_STOCK", HoldTicker,
                             cash \div prices[HoldTicker], prices[HoldTicker],
                             (cash \div prices[HoldTicker]) * prices[HoldTicker])
            /\ positions'[HoldTicker].shares = cash \div prices[HoldTicker]]_vars
    /\ [][(/\ pc = "callback"
           /\ pc' # "callback"
           /\ Held(positions, HoldTicker) = 0
           /\ HoldTicker \in DOMAIN prices
           /\ prices[HoldTicker] > 0
           /\ cash \div prices[HoldTicker] >= 1) => transactions' # transactions]_vars

\* C29 witness: no share was affordable on the first date, the purchase was
\* made on the second.
C29_Witness ==
    /\ pc = "returned"
    /\ Len(history) = 2
    /\ Len(transactions) = 1
    /\ transactions[1].date = 2
    /\ transactions[1].shares = 1
    /\ cash = 0

\* the open calls on the covered-call strategy's ticker
OpenCalls(opts) ==
    {i \in DOMAIN opts : opts[i].ticker = strategy_callback.ticker /\ opts[i].option_type = "call"}

\* the SELL_CALL records of a log
SellCalls(log) == {i \in DOMAIN log : log[i].action = "SELL_CALL"}

\* C30: under the covered-call strategy a SELL_CALL is issued on a day only
\* if, after the day's purchase, at least 100 shares are held and no call on
\* the ticker is open, and it is for floor(shares/100) contracts; at every
\* moment at most one call contract on the ticker is open.
C30_CoveredCallOnlyWhenCovered ==
    /\ [][SellCalls(transactions') # SellCalls(transactions) =>
            /\ pc = "callback"
            /\ OpenCalls(options) = {}
            /\ Held(positions', strategy_callback.ticker) >= 100
            /\ Last(transactions').action = "SELL_CALL"
            /\ Last(transactions').ticker = strategy_callback.ticker
            /\ Last(transactions').contracts =
                   Held(positions', strategy_callback.ticker) \div 100
            /\ Cardinality(SellCalls(transactions')) =
                   Cardinality(SellCalls(transactions)) + 1]_vars
    /\ [](Cardinality(OpenCalls(options)) <= 1)

\* C30 witness: a call written on the first date is still open on the second,
\* where shares are bought with the premium and no second call is written.
C30_Witness ==
    /\ pc = "snapshot"
    /\ day = 2
    /\ Cardinality(OpenCalls(options)) = 1
    /\ options[1].contracts = 3
    /\ Cardinality(SellCalls(transactions)) = 1
    /\ Len(transactions) = 3
    /\ transactions[3].action = "BUY_STOCK"
    /\ transactions[3].date = 2

\* the open long calls on the LEAP strategy's ticker
LongCalls(opts) ==
    {i \in DOMAIN opts : /\ opts[i].ticker = strategy_callback.ticker
                         /\ opts[i].option_type = "call"
                         /\ opts[i].position = "long"}

\* the records of an action in a log, and those of one date
RecordsOf(log, action) == {i \in DOMAIN log : log[i].action = action}
RecordsOn(log, action, date) == {i \in RecordsOf(log, action) : log[i].date = date}

\* the long calls due for a roll when the callback is entered
DueAtEntry ==
    RollCandidates(options, strategy_callback.ticker, day, strategy_callback.roll_threshold)

C38_HandleProvidesEveryOperation ==
    strategy_callback.handle = "simulation" =>
        /\ \A op \in {"buy_stock", "sell_stock", "sell_call", "sell_put", "buy_call",
                      "close_call"} : Provides("simulation", op)
        /\ ~(pc = "raised" /\ "error" \in DOMAIN last /\ last.error = "AttributeError")

\* the written contracts of a type on the strategy's ticker
ShortEntries(opts, option_type) ==
    {i \in DOMAIN opts : /\ opts[i].ticker = strategy_callback.ticker
                         /\ opts[i].option_type = option_type
                         /\ opts[i].position = "short"}

\* a volatility observation of the strategy's ticker exists on the day
VolatilityAvailable ==
    /\ strategy_callback.ticker \in DOMAIN volatility_data
    /\ \E d \in DOMAIN volatility_data[strategy_callback.ticker] : d <= day

\* C32: the two phases of the wheel are mutually exclusive: a day's callback
\* makes at most one Executor call; a SELL_PUT only when no stock is held
\* and no short put is open, for floor(cash / (put_strike*100)) contracts; a
\* SELL_CALL only when stock is held and no short call is open, for
\* floor(shares/100) contracts; neither without a volatility observation or
\* with a premium-to-price ratio below the threshold.
C32_WheelPhasesExclusive ==
    [][(pc = "callback" /\ transactions' # transactions) =>
         LET rec == transactions'[Len(transactions) + 1]
             ticker == strategy_callback.ticker
         IN /\ Len(transactions') = Len(transactions) + 1
            /\ rec.action \in {"SELL_PUT", "SELL_CALL"}
            /\ rec.ticker = ticker
            /\ VolatilityAvailable
            /\ rec.premium_per_share * 100 >= strategy_callback.threshold * prices[ticker]
            /\ rec.action = "SELL_PUT" =>
                 /\ Held(positions, ticker) = 0
                 /\ ShortEntries(options, "put") = {}
                 /\ rec.strike = prices[ticker] * strategy_callback.put_strike_factor
                 /\ rec.contracts = cash \div (rec.strike * 100)
            /\ rec.action = "SELL_CALL" =>
                 /\ Held(positions, ticker) > 0
                 /\ ShortEntries(options, "call") = {}
                 /\ rec.contracts = Held(positions, ticker) \div 100]_vars

\* C32 witness: a put was written on the first date and assigned on the
\* second, where a call was written on the shares; one call a day.
C32_Witness ==
    /\ Len(transactions) = 4
    /\ transactions[1].action = "SELL_PUT"
    /\ transactions[1].date = 1
    /\ transactions[2].action = "PUT_EXERCISED"
    /\ transactions[3].action = "BUY_STOCK"
    /\ transactions[4].action = "SELL_CALL"
    /\ transactions[4].date = 2
    /\ transactions[4].contracts = 1

\* every written contract in the portfolio
AllShort(opts) == {i \in DOMAIN opts : opts[i].position = "short"}

\* C39: under the wheel strategy run by the Engine the portfolio never holds
\* a short put and a short call on the ticker together and never more than
\* one short contract entry, and every short put that expires in the money
\* is assigned: its PUT_EXERCISED record is followed by the BUY_STOCK of
\* contracts*100 shares at the strike, which the cash covers.
C39_WheelNeverDoubleShort ==
    /\ ~(ShortEntries(options, "put") # {} /\ ShortEntries(options, "call") # {})
    /\ Cardinality(AllShort(options)) <= 1
    /\ cash >= 0
    /\ \A i \in RecordsOf(transactions, "PUT_EXERCISED") :
         /\ i + 1 <= Len(transactions)
         /\ transactions[i + 1].action = "BUY_STOCK"
         /\ transactions[i + 1].date = transactions[i].date
         /\ transactions[i + 1].ticker = transactions[i].ticker
         /\ transactions[i + 1].shares = transactions[i].contracts * 100
         /\ transactions[i + 1].price = transactions[i].strike

\* C39 witness: a whole turn of the wheel: the put was assigned on the
\* second date, the call written on the shares was assigned on the third
\* and a new put was written.
C39_Witness ==
    /\ Len(transactions) = 7
    /\ transactions[2].action = "PUT_EXERCISED"
    /\ transactions[3].action = "BUY_STOCK"
    /\ transactions[3].shares = 100
    /\ transactions[5].action = "CALL_EXERCISED"
    /\ transactions[6].action = "SELL_STOCK"
    /\ transactions[7].action = "SELL_PUT"
    /\ transactions[7].date = 3
    /\ positions = << >>

\* the contracts of the open short calls on the strategy's ticker
RECURSIVE ContractsOf(_, _)
ContractsOf(opts, idx) ==
    IF idx = {} THEN 0
    ELSE LET i == CHOOSE k \in idx : TRUE
         IN opts[i].contracts + ContractsOf(opts, idx \ {i})

\* C40: under the covered-call strategy run by the Engine every reachable
\* state has held shares >= 100 * (open short-call contracts on the ticker)
\* and cash >= 0, so every expiration in the money sells exactly
\* contracts*100 held shares at the strike and no Position is ever negative
\* or uncovered.
C40_CoveredCallStaysCovered ==
    /\ cash >= 0
    /\ Held(positions, strategy_callback.ticker) >=
           100 * ContractsOf(options, ShortEntries(options, "call"))
    /\ \A k \in DOMAIN positions : positions[k].shares > 0
    /\ \A i \in RecordsOf(transactions, "CALL_EXERCISED") :
         /\ i + 1 <= Len(transactions)
         /\ transactions[i + 1].action = "SELL_STOCK"
         /\ transactions[i + 1].date = transactions[i].date
         /\ transactions[i + 1].ticker = transactions[i].ticker
         /\ transactions[i + 1].shares = transactions[i].contracts * 100
         /\ transactions[i + 1].price = transactions[i].strike

\* C40 witness: the call written on the first date expired in the money on
\* the second and the 300 covering shares were sold at the strike.
C40_Witness ==
    /\ Len(transactions) >= 4
    /\ transactions[2].action = "SELL_CALL"
    /\ transactions[2].contracts = 3
    /\ transactions[3].action = "CALL_EXERCISED"
    /\ transactions[3].date = 2
    /\ transactions[4].action = "SELL_STOCK"
    /\ transactions[4].shares = 300

\* ------------------------------------------- stock and covered-call calls
\* A Strategy that trades stock and writes calls only; its calls are
\* followed while the log holds fewer than MaxCoverLog records.
MaxCoverLog == 4

CoverCall(op, r) ==
    /\ day >= 1
    /\ Len(transactions) < MaxCoverLog
    /\ Install(r.st)
    /\ last' = [op |-> op, ok |-> r.ok]
    /\ UNCHANGED <<transaction_log, current_date, day>>
    /\ UNCHANGED run_vars

CoverBuyStock ==
    \E ticker \in Tickers, shares \in ShareCounts, price \in Prices :
        CoverCall("buy_stock", buy_stock(St, ticker, shares, price))

CoverSellStock ==
    \E ticker \in Tickers, shares \in ShareCounts, price \in Prices :
        CoverCall("sell_stock", sell_stock(St, ticker, shares, price))

CoverSellCall ==
    /\ Len(options) < MaxOptions
    /\ \E c \in OptionChain, contracts \in ContractCounts, premium \in Premiums :
        CoverCall("sell_call",
                  sell_call(St, c.ticker, c.strike, c.expiration, contracts, premium))

CoverNext ==
    \/ DayStart
    \/ CoverBuyStock
    \/ CoverSellStock
    \/ CoverSellCall

SpecCover == Init /\ [][CoverNext]_vars

\* the open short calls on a ticker and the contracts they stand for
ShortCallsOn(opts, ticker) ==
    {i \in DOMAIN opts : /\ opts[i].ticker = ticker
                         /\ opts[i].option_type = "call"
                         /\ opts[i].position = "short"}
ShortCallContracts(opts, ticker) == ContractsOf(opts, ShortCallsOn(opts, ticker))

\* more contracts are written on the ticker than the shares held cover
Uncovered(pos, opts, ticker) == 100 * ShortCallContracts(opts, ticker) > Held(pos, ticker)

\* C37: coverage of short calls is checked only inside sell_call, against
\* the shares held at that moment: sell_call succeeds iff the shares held
\* are at least contracts*100, whatever calls are already open, and
\* sell_stock succeeds iff the shares are held, whatever calls are open; so
\* a sale of covering stock and a second call on the same shares both go
\* through and leave more contracts written than the shares cover.
C37_CoverageOnlyAtOpen ==
    /\ \A a \in OptionArgs :
         LET r == sell_call(St, a.ticker, a.strike, a.expiration, a.contracts, a.premium)
         IN /\ r.ok <=> Held(positions, a.ticker) >= a.contracts * 100
            /\ r.ok => /\ ShortCallContracts(r.st.options, a.ticker) =
                              ShortCallContracts(options, a.ticker) + a.contracts
                       /\ r.st.positions = positions
    /\ \A a \in StockArgs :
         LET r == sell_stock(St, a.ticker, a.shares, a.price)
         IN /\ r.ok <=> Held(positions, a.ticker) >= a.shares
            /\ r.ok => r.st.options = options

\* C37 witness: two calls were written against the same 200 shares (three
\* contracts in all) and half of the shares were then sold.
C37_Witness ==
    /\ last.op = "sell_stock"
    /\ last.ok
    /\ \E ticker \in Tickers :
         /\ Cardinality(ShortCallsOn(options, ticker)) = 2
         /\ ShortCallContracts(options, ticker) = 3
         /\ Held(positions, ticker) = 100

\* a second call was written on shares that an open call already covers
TwoCallsOnSameShares ==
    /\ last.op = "sell_call"
    /\ last.ok
    /\ \E ticker \in Tickers :
         /\ Cardinality(ShortCallsOn(options, ticker)) = 2
         /\ Held(positions, ticker) = 100
         /\ Uncovered(positions, options, ticker)

\* ------------------------------------------------ two simulations at once
\* Two BacktestSimulation objects in one process, each with its own
\* Portfolio, log and calendar position; TradingAction._transaction_log and
\* TradingAction._current_date are class attributes, one slot for both.
\* transaction_log holds the instance whose list the slot refers to.
Sims == {"sim1", "sim2"}

Instance(initial_cash) ==
    [cash |-> initial_cash, positions |-> << >>, options |-> << >>,
     transactions |-> << >>, day |-> 0]

World == [instances |-> instances, transaction_log |-> transaction_log,
          current_date |-> current_date]

\* the Executor calls a Strategy callback of the two makes on a day
StepCalls ==
    {[op |-> "none"]}
      \cup {[op |-> "buy_stock", ticker |-> "A", shares |-> 100, price |-> p] : p \in Prices}
      \cup {[op |-> o, ticker |-> c.ticker, strike |-> c.strike, expiration |-> c.expiration,
             contracts |-> 1, premium |-> 1] :
               o \in {"sell_put", "sell_call"}, c \in OptionChain}

\* a variant of set_transaction_log that leaves a slot already set
set_transaction_log_once(world, i, date) ==
    IF world.transaction_log = "None"
    THEN [world EXCEPT !.transaction_log = i, !.current_date = date]
    ELSE world

\* TradingAction.set_transaction_log(self.transactions, current_date)
set_transaction_log(world, i, date) ==
    [world EXCEPT !.transaction_log = i, !.current_date = date]

\* what the code of a day step works on: the instance's Portfolio and the
\* class attributes as they stand; log collects the records it writes
Working(world, i) ==
    LET self == world.instances[i]
    IN [cash |-> self.cash, positions |-> self.positions, options |-> self.options,
        log |-> << >>, transaction_log |-> world.transaction_log,
        current_date |-> world.current_date]

\* the Strategy callback's call
Called(st, call) ==
    CASE call.op = "none" -> Result(TRUE, st)
      [] call.op = "buy_stock" -> buy_stock(st, call.ticker, call.shares, call.price)
      [] call.op = "sell_put" ->
           sell_put(st, call.ticker, call.strike, call.expiration, call.contracts, call.premium)
      [] call.op = "sell_call" ->
           sell_call(st, call.ticker, call.strike, call.expiration, call.contracts, call.premium)

\* Each record goes to the list its writer appends to: the exercise records
\* to self.transactions (simulation.py 271, 287), the Executor's records to
\* the list the slot refers to.
RECURSIVE Deliver(_, _, _, _)
Deliver(insts, i, slot, records) ==
    IF records = << >> THEN insts
    ELSE LET rec == Head(records)
             to == IF rec.action \in {"CALL_EXERCISED", "PUT_EXERCISED"} THEN i ELSE slot
         IN Deliver([insts EXCEPT ![to].transactions = Append(@, rec)],
                    i, slot, Tail(records))

\* one iteration of run() of instance i, from set_transaction_log to the
\* return of the callback
day_step(world, i, current_prices, call) ==
    LET date == world.instances[i].day + 1
        w == set_transaction_log(world, i, date)
        expired == handle_option_expirations(Working(w, i), date, current_prices)
        r == Called(expired, call)
        self == [w.instances[i] EXCEPT !.cash = r.st.cash,
                                       !.positions = r.st.positions,
                                       !.options = r.st.options,
                                       !.day = date]
    IN [world |-> [w EXCEPT !.instances =
                       Deliver([w.instances EXCEPT ![i] = self], i, w.transaction_log,
                               r.st.log)],
        last |-> [op |-> call.op, ok |-> r.ok]]

TwoInit ==
    /\ instances \in [Sims -> {Instance(c) : c \in InitialCashes}]
    /\ transaction_log = "None"
    /\ current_date = 0
    /\ cash = 0
    /\ config = WholeCalendar(0)
    /\ positions = << >>
    /\ options = << >>
    /\ transactions = << >>
    /\ day = 0
    /\ last = [op |-> "none", ok |-> TRUE]
    /\ market_data = << >>
    /\ volatility_data = << >>
    /\ strategy_callback = [name |-> "None", ticker |-> "None"]
    /\ pc = "none"
    /\ prices = << >>
    /\ history = << >>

DayStep(i) ==
    /\ instances[i].day + 1 \in TradingDates
    /\ \E current_prices \in [Tickers -> ClosePrices], call \in StepCalls :
         LET after == day_step(World, i, current_prices, call)
         IN /\ instances' = after.world.instances
            /\ transaction_log' = after.world.transaction_log
            /\ current_date' = after.world.current_date
            /\ last' = after.last
    /\ UNCHANGED <<cash, positions, options, transactions, day, market_data,
                   volatility_data, strategy_callback, pc, prices, history, config>>

TwoNext == \E i \in Sims : DayStep(i)

SpecTwo == TwoInit /\ [][TwoNext]_vars

\* the record an Executor call logs
ActionOf(op) ==
    CASE op = "buy_stock" -> "BUY_STOCK"
      [] op = "sell_put" -> "SELL_PUT"
      [] op = "sell_call" -> "SELL_CALL"

\* C36: when two simulation instances are stepped in any alternation of
\* whole day steps, a day step of one instance leaves the other instance
\* (its log included) as it was; what it adds to its own log is appended
\* and dated with its own current day, and the record of a successful
\* Executor call of its callback is the last of them.
C36_LogIsolation ==
    [][\A i \in Sims : \A other \in Sims \ {i} :
         instances'[i].day # instances[i].day =>
           LET old == instances[i].transactions
               new == instances'[i].transactions
           IN /\ instances'[other] = instances[other]
              /\ Len(new) >= Len(old)
              /\ SubSeq(new, 1, Len(old)) = old
              /\ \A k \in (Len(old) + 1)..Len(new) : new[k].date = instances'[i].day
              /\ transaction_log' = i
              /\ current_date' = instances'[i].day
              /\ (last'.op # "none" /\ last'.ok) =>
                   /\ Len(new) > Len(old)
                   /\ new[Len(new)].action = ActionOf(last'.op)]_vars

\* C36 witness: the second instance is on its second day, where its put was
\* assigned and its callback bought stock, while the first instance has
\* made its first day step in between; each log holds its own records.
C36_Witness ==
    /\ instances["sim1"].day = 1
    /\ instances["sim2"].day = 2
    /\ Len(instances["sim1"].transactions) = 1
    /\ instances["sim1"].transactions[1].date = 1
    /\ Len(instances["sim2"].transactions) = 4
    /\ instances["sim2"].transactions[1].action = "SELL_PUT"
    /\ instances["sim2"].transactions[1].date = 1
    /\ instances["sim2"].transactions[2].action = "PUT_EXERCISED"
    /\ instances["sim2"].transactions[3].action = "BUY_STOCK"
    /\ instances["sim2"].transactions[4].action = "BUY_STOCK"
    /\ \A k \in 2..4 : instances["sim2"].transactions[k].date = 2
    /\ transaction_log = "sim2"

\* ------------------------------------------- moving-average strategies
\* The four callbacks of moving_average_strategy.py.  Prices are small whole
\* numbers and the averages are exact fractions; the allocation and the
\* volatility threshold are in percent.
MAPrices == {1, 2}
FreeDays == 6
FlatDays == 21
MACashes == {0, 5}
Allocations == {50, 100}
VolatilityThresholds == {2, 50}
\* returns.tail(20), len(returns) >= 20
ReturnsWindow == 20

\* the (short_window, long_window) pairs of the SMA, EMA and adaptive
\* factories and the (fast, medium, slow) triples of the triple-MA factory
SmaWindows == {<<1, 2>>, <<3, 2>>}
EmaWindows == {<<1, 3>>, <<3, 1>>}
TripleWindows == {<<1, 2, 3>>, <<3, 1, 2>>}
AdaptiveWindows == {<<1, 4>>}

\* price frames of ticker A: FreeDays closes, or FlatDays closes of 1
\* followed by FreeDays closes; B closes at 1 on the same dates
Frames(closes) ==
    [market |-> [A |-> [readable |-> TRUE, Close |-> closes],
                 B |-> [readable |-> TRUE, Close |-> [d \in DOMAIN closes |-> 1]]],
     volatility |-> [A |-> << >>]]

ShortPaths == {Frames(c) : c \in [1..FreeDays -> MAPrices]}
LongPaths ==
    {Frames([d \in 1..(FlatDays + FreeDays) |-> IF d <= FlatDays THEN 1 ELSE c[d - FlatDays]]) :
        c \in [1..FreeDays -> MAPrices]}

\* hist_data['Close']: the closes of the frame in date order
Rows(series) ==
    LET ds == DOMAIN series
        n == Cardinality(ds)
    IN IF ds = 1..n THEN [k \in 1..n |-> series[k]]
       ELSE [k \in 1..n |->
               series[CHOOSE d \in ds : Cardinality({e \in ds : e <= d}) = k]]

RECURSIVE SumOf(_, _, _)
SumOf(f, from, to) == IF from > to THEN 0 ELSE f[to] + SumOf(f, from, to - 1)

\* a float (exact), float('nan'), or None
NoneValue == [none |-> TRUE, nan |-> FALSE, num |-> 0, den |-> 1]
NaNValue == [none |-> FALSE, nan |-> TRUE, num |-> 0, den |-> 1]
Value(num, den) == [none |-> FALSE, nan |-> FALSE, num |-> num, den |-> den]
isna(x) == x.nan
is_None(x) == x.none
Greater(x, y) == x.num * y.den > y.num * x.den
Less(x, y) == Greater(y, x)

\* prices.rolling(window=window).mean().iloc[-1]: NaN on fewer than window rows
rolling_mean(rows, window) ==
    IF Len(rows) < window THEN NaNValue
    ELSE Value(SumOf(rows, Len(rows) - window + 1, Len(rows)), window)

\* prices.ewm(span=span, adjust=False).mean(): y1 = x1,
\* yt = (1 - a) * y(t-1) + a * xt with a = 2 / (span + 1)
RECURSIVE ewm_at(_, _, _)
ewm_at(rows, span, t) ==
    IF t = 1 THEN Value(rows[1], 1)
    ELSE LET y == ewm_at(rows, span, t - 1)
             f == Frac((span - 1) * y.num + 2 * rows[t] * y.den, (span + 1) * y.den)
         IN Value(f.num, f.den)

ewm_mean(rows, span) == ewm_at(rows, span, Len(rows))

\* int(portfolio.cash * allocation / current_price)
max_shares_of(c, allocation, current_price) == (c * allocation) \div (100 * current_price)

\* what a callback has done when it returns or raises, and its closure state
MAOutcome(error, op, ok, st, state) ==
    [error |-> error, op |-> op, ok |-> ok, st |-> st, state |-> state]

buy_allocation(st, cb, state, current_price) ==
    IF current_price = 0 THEN MAOutcome("ZeroDivisionError", "none", TRUE, st, state)
    ELSE
    LET max_shares == max_shares_of(st.cash, cb.allocation, current_price) IN
    IF max_shares > 0
    THEN LET r == buy_stock(st, cb.ticker, max_shares, current_price)
         IN MAOutcome("none", "buy_stock", r.ok, r.st, [state EXCEPT !.position_entered = TRUE])
    ELSE MAOutcome("none", "none", TRUE, st, state)

sell_position(st, cb, state, current_price) ==
    IF cb.ticker \in DOMAIN st.positions /\ st.positions[cb.ticker].shares > 0
    THEN LET r == sell_stock(st, cb.ticker, st.positions[cb.ticker].shares, current_price)
         IN MAOutcome("none", "sell_stock", r.ok, r.st, [state EXCEPT !.position_entered = FALSE])
    ELSE MAOutcome("none", "none", TRUE, st, state)

\* a variant of the crossover test that does not look at the previous averages
crossover_any_day(st, cb, current_price, short_ma, long_ma) ==
    LET state == cb.state
        signalled ==
          IF ~is_None(state.prev_short) /\ ~is_None(state.prev_long)
          THEN IF Greater(short_ma, long_ma) /\ ~state.position_entered
               THEN buy_allocation(st, cb, state, current_price)
               ELSE IF /\ ~Less(state.prev_short, state.prev_long)
                       /\ Less(short_ma, long_ma)
                       /\ state.position_entered
               THEN sell_position(st, cb, state, current_price)
               ELSE MAOutcome("none", "none", TRUE, st, state)
          ELSE MAOutcome("none", "none", TRUE, st, state)
    IN IF signalled.error # "none" THEN signalled
       ELSE [signalled EXCEPT !.state.prev_short = short_ma, !.state.prev_long = long_ma]

\* the crossover test of sma_crossover and ema_crossover and the update of
\* the previous averages
crossover(st, cb, current_price, short_ma, long_ma) ==
    LET state == cb.state
        signalled ==
          IF ~is_None(state.prev_short) /\ ~is_None(state.prev_long)
          THEN IF /\ ~Greater(state.prev_short, state.prev_long)
                  /\ Greater(short_ma, long_ma)
                  /\ ~state.position_entered
               THEN buy_allocation(st, cb, state, current_price)
               ELSE IF /\ ~Less(state.prev_short, state.prev_long)
                       /\ Less(short_ma, long_ma)
                       /\ state.position_entered
               THEN sell_position(st, cb, state, current_price)
               ELSE MAOutcome("none", "none", TRUE, st, state)
          ELSE MAOutcome("none", "none", TRUE, st, state)
    IN IF signalled.error # "none" THEN signalled
       ELSE [signalled EXCEPT !.state.prev_short = short_ma, !.state.prev_long = long_ma]

sma_crossover(st, cb, snapshot) ==
    IF cb.ticker \notin DOMAIN snapshot.prices
    THEN MAOutcome("KeyError", "none", TRUE, st, cb.state)
    ELSE IF cb.ticker \notin DOMAIN snapshot.data
    THEN MAOutcome("none", "none", TRUE, st, cb.state)
    ELSE
      LET rows == Rows(snapshot.data[cb.ticker].Close)
          short_ma == rolling_mean(rows, cb.short_window)
          long_ma == rolling_mean(rows, cb.long_window)
      IN IF Len(rows) < cb.long_window \/ isna(short_ma) \/ isna(long_ma)
         THEN MAOutcome("none", "none", TRUE, st, cb.state)
         ELSE crossover(st, cb, snapshot.prices[cb.ticker], short_ma, long_ma)

ema_crossover(st, cb, snapshot) ==
    IF cb.ticker \notin DOMAIN snapshot.prices
    THEN MAOutcome("KeyError", "none", TRUE, st, cb.state)
    ELSE IF cb.ticker \notin DOMAIN snapshot.data
    THEN MAOutcome("none", "none", TRUE, st, cb.state)
    ELSE
      LET rows == Rows(snapshot.data[cb.ticker].Close) IN
      IF Len(rows) < cb.long_window
      THEN MAOutcome("none", "none", TRUE, st, cb.state)
      ELSE
        LET short_ema == ewm_mean(rows, cb.short_window)
            long_ema == ewm_mean(rows, cb.long_window)
        IN crossover(st, cb, snapshot.prices[cb.ticker], short_ema, long_ema)

triple_ma(st, cb, snapshot) ==
    IF cb.ticker \notin DOMAIN snapshot.prices
    THEN MAOutcome("KeyError", "none", TRUE, st, cb.state)
    ELSE IF cb.ticker \notin DOMAIN snapshot.data
    THEN MAOutcome("none", "none", TRUE, st, cb.state)
    ELSE
      LET rows == Rows(snapshot.data[cb.ticker].Close)
          current_price == snapshot.prices[cb.ticker]
          fast_ma == rolling_mean(rows, cb.fast_window)
          medium_ma == rolling_mean(rows, cb.medium_window)
          slow_ma == rolling_mean(rows, cb.slow_window)
      IN IF Len(rows) < cb.slow_window \/ isna(fast_ma) \/ isna(medium_ma) \/ isna(slow_ma)
         THEN MAOutcome("none", "none", TRUE, st, cb.state)
         ELSE IF /\ Greater(fast_ma, medium_ma)
                 /\ Greater(medium_ma, slow_ma)
                 /\ ~cb.state.position_entered
         THEN buy_allocation(st, cb, cb.state, current_price)
         ELSE IF Less(fast_ma, medium_ma) /\ cb.state.position_entered
         THEN sell_position(st, cb, cb.state, current_price)
         ELSE MAOutcome("none", "none", TRUE, st, cb.state)

RECURSIVE LcmOf(_)
LcmOf(S) ==
    IF S = {} THEN 1
    ELSE LET x == CHOOSE y \in S : TRUE
             rest == LcmOf(S \ {x})
         IN (x * rest) \div GCD(x, rest)

\* prices.pct_change() at row t, as a multiple of 1 / LcmOf(MAPrices)
ScaledReturn(rows, t) == (rows[t] - rows[t - 1]) * (LcmOf(MAPrices) \div rows[t - 1])

RECURSIVE SumReturns(_, _, _, _)
SumReturns(rows, from, to, power) ==
    IF from > to THEN 0
    ELSE LET r == ScaledReturn(rows, to)
         IN (IF power = 2 THEN r * r ELSE r) + SumReturns(rows, from, to - 1, power)

\* current_volatility > volatility_threshold: the sample standard deviation
\* of the last ReturnsWindow returns, 0 on fewer returns than that
high_volatility(rows, threshold) ==
    IF Len(rows) - 1 >= ReturnsWindow
    THEN LET n == ReturnsWindow
             from == Len(rows) - n + 1
             sum == SumReturns(rows, from, Len(rows), 1)
             squares == SumReturns(rows, from, Len(rows), 2)
         IN (n * squares - sum * sum) * 100 * 100 >
                threshold * threshold * n * (n - 1) * LcmOf(MAPrices) * LcmOf(MAPrices)
    ELSE 0 > threshold

\* a variant that asks for one day of confirmation in either regime
required_confirmation_one(high) == 1

\* required_confirmation = 3 if high_volatility else 1
required_confirmation(high) == IF high THEN 3 ELSE 1

adaptive_ma(st, cb, snapshot) ==
    IF cb.ticker \notin DOMAIN snapshot.prices
    THEN MAOutcome("KeyError", "none", TRUE, st, cb.state)
    ELSE IF cb.ticker \notin DOMAIN snapshot.data
    THEN MAOutcome("none", "none", TRUE, st, cb.state)
    ELSE
      LET rows == Rows(snapshot.data[cb.ticker].Close)
          current_price == snapshot.prices[cb.ticker]
          short_ma == rolling_mean(rows, cb.short_window)
          long_ma == rolling_mean(rows, cb.long_window)
          state == cb.state
      IN IF Len(rows) < cb.long_window \/ isna(short_ma) \/ isna(long_ma)
         THEN MAOutcome("none", "none", TRUE, st, state)
         ELSE
           LET required == required_confirmation(high_volatility(rows, cb.volatility_threshold))
               signalled ==
                 IF ~is_None(state.prev_short) /\ ~is_None(state.prev_long)
                 THEN IF Greater(short_ma, long_ma) /\ ~state.position_entered
                      THEN LET counted ==
                                 [state EXCEPT !.confirmation_days =
                                     IF Greater(state.prev_short, state.prev_long)
                                     THEN @ + 1 ELSE 1]
                           IN IF counted.confirmation_days >= required
                              THEN LET b == buy_allocation(st, cb, counted, current_price)
                                   IN IF b.op = "buy_stock"
                                      THEN [b EXCEPT !.state.confirmation_days = 0]
                                      ELSE b
                              ELSE MAOutcome("none", "none", TRUE, st, counted)
                      ELSE IF Less(short_ma, long_ma) /\ state.position_entered
                      THEN LET counted ==
                                 [state EXCEPT !.confirmation_days =
                                     IF Less(state.prev_short, state.prev_long)
                                     THEN @ + 1 ELSE 1]
                           IN IF counted.confirmation_days >= required
                              THEN LET r == sell_position(st, cb, counted, current_price)
                                   IN IF r.op = "sell_stock"
                                      THEN [r EXCEPT !.state.confirmation_days = 0]
                                      ELSE r
                              ELSE MAOutcome("none", "none", TRUE, st, counted)
                      ELSE MAOutcome("none", "none", TRUE, st,
                                     [state EXCEPT !.confirmation_days = 0])
                 ELSE MAOutcome("none", "none", TRUE, st, state)
           IN IF signalled.error # "none" THEN signalled
              ELSE [signalled EXCEPT !.state.prev_short = short_ma,
                                     !.state.prev_long = long_ma]

\* the arguments of BacktestSimulation for a frame of the given closes
MACalendar(initial_cash, md) ==
    [tickers |-> <<"A", "B">>, start_date |-> 1,
     end_date |-> Latest(DOMAIN md["A"].Close) + 1, initial_cash |-> initial_cash]

\* the closure state the factories create
Closure ==
    [prev_short |-> NoneValue, prev_long |-> NoneValue, position_entered |-> FALSE,
     confirmation_days |-> 0]

\* the callbacks the four factories return
MACallbacks ==
    {[name |-> n, ticker |-> "A", short_window |-> w[1], long_window |-> w[2],
      allocation |-> a, state |-> Closure] :
        n \in {"sma_crossover"}, w \in SmaWindows, a \in Allocations}
    \cup
    {[name |-> n, ticker |-> "A", short_window |-> w[1], long_window |-> w[2],
      allocation |-> a, state |-> Closure] :
        n \in {"ema_crossover"}, w \in EmaWindows, a \in Allocations}
    \cup
    {[name |-> "triple_ma", ticker |-> "A", fast_window |-> w[1], medium_window |-> w[2],
      slow_window |-> w[3], allocation |-> a, state |-> Closure] :
        w \in TripleWindows, a \in Allocations}
    \cup
    {[name |-> "adaptive_ma", ticker |-> "A", short_window |-> w[1], long_window |-> w[2],
      allocation |-> a, volatility_threshold |-> th, state |-> Closure] :
        w \in AdaptiveWindows, a \in Allocations, th \in VolatilityThresholds}

MAInit ==
    /\ cash \in MACashes
    /\ positions = << >>
    /\ options = << >>
    /\ transactions = << >>
    /\ transaction_log = "None"
    /\ current_date = 0
    /\ day = 0
    /\ last = [op |-> "none", ok |-> TRUE]
    /\ strategy_callback \in MACallbacks
    /\ \E m \in (IF strategy_callback.name = "adaptive_ma"
                 THEN ShortPaths \cup LongPaths ELSE ShortPaths) :
         /\ market_data = m.market
         /\ volatility_data = m.volatility
    /\ config = MACalendar(cash, market_data)
    /\ instances = << >>
    /\ pc = "loop"
    /\ prices = << >>
    /\ history = << >>

\* the callback of the day, by the factory that made it
moving_average(st, cb, snapshot) ==
    CASE cb.name = "sma_crossover" -> sma_crossover(st, cb, snapshot)
      [] cb.name = "ema_crossover" -> ema_crossover(st, cb, snapshot)
      [] cb.name = "triple_ma" -> triple_ma(st, cb, snapshot)
      [] cb.name = "adaptive_ma" -> adaptive_ma(st, cb, snapshot)

\* The whole callback; an exception it raises leaves run() through the loop.
MovingAverage ==
    /\ pc = "callback"
    /\ strategy_callback.name \in {"sma_crossover", "ema_crossover", "triple_ma", "adaptive_ma"}
    /\ LET r == moving_average(St, strategy_callback,
                               market_snapshot(market_data, volatility_data, day, prices))
       IN /\ Install(r.st)
          /\ strategy_callback' = [strategy_callback EXCEPT !.state = r.state]
          /\ last' = IF r.error # "none"
                     THEN [op |-> r.op, ok |-> r.ok, error |-> r.error]
                     ELSE IF r.op = "none" THEN last ELSE [op |-> r.op, ok |-> r.ok]
          /\ pc' = IF r.error # "none" THEN "raised" ELSE "snapshot"
    /\ UNCHANGED <<transaction_log, current_date, day, market_data, volatility_data,
                   prices, history, config, instances>>

MANext ==
    \/ NextDay
    \/ MovingAverage
    \/ Snapshot
    \/ RunReturns

SpecMA ==
    /\ MAInit
    /\ [][MANext]_vars
    /\ WF_vars(NextDay) /\ WF_vars(MovingAverage) /\ WF_vars(Snapshot) /\ WF_vars(RunReturns)

\* the strategy's rows, averages and evaluation on a date, computed from the
\* price frame
RowsAt(d) == Rows(Until(market_data[strategy_callback.ticker].Close, d))

ShortAt(d) ==
    IF strategy_callback.name = "ema_crossover"
    THEN ewm_mean(RowsAt(d), strategy_callback.short_window)
    ELSE rolling_mean(RowsAt(d), strategy_callback.short_window)

LongAt(d) ==
    IF strategy_callback.name = "ema_crossover"
    THEN ewm_mean(RowsAt(d), strategy_callback.long_window)
    ELSE rolling_mean(RowsAt(d), strategy_callback.long_window)

\* the callback computes both averages on the date and reaches the signal test
Evaluated(d) ==
    /\ d \in trading_dates
    /\ Len(RowsAt(d)) >= strategy_callback.long_window
    /\ ~isna(ShortAt(d))
    /\ ~isna(LongAt(d))

HasPrevious(d) == {e \in trading_dates : e < d} # {}
PreviousDate(d) == Latest({e \in trading_dates : e < d})

GoldenCross(d) ==
    /\ Evaluated(d)
    /\ HasPrevious(d)
    /\ Evaluated(PreviousDate(d))
    /\ ~Greater(ShortAt(PreviousDate(d)), LongAt(PreviousDate(d)))
    /\ Greater(ShortAt(d), LongAt(d))

DeathCross(d) ==
    /\ Evaluated(d)
    /\ HasPrevious(d)
    /\ Evaluated(PreviousDate(d))
    /\ ~Less(ShortAt(PreviousDate(d)), LongAt(PreviousDate(d)))
    /\ Less(ShortAt(d), LongAt(d))

Crossover == strategy_callback.name \in {"sma_crossover", "ema_crossover"}

\* the callback of the day has just returned
CallbackStep == pc = "callback" /\ pc' = "snapshot"

CrossoverLogAlternates ==
    Crossover =>
      /\ \A i \in DOMAIN transactions :
           /\ transactions[i].action \in {"BUY_STOCK", "SELL_STOCK"}
           /\ transactions[i].ticker = strategy_callback.ticker
           /\ transactions[i].action = "BUY_STOCK" =>
                /\ GoldenCross(transactions[i].date)
                /\ i = 1 \/ transactions[i - 1].action = "SELL_STOCK"
           /\ transactions[i].action = "SELL_STOCK" =>
                /\ DeathCross(transactions[i].date)
                /\ i > 1
                /\ transactions[i - 1].action = "BUY_STOCK"
                /\ transactions[i].shares = transactions[i - 1].shares
           /\ i > 1 => transactions[i - 1].date < transactions[i].date
      /\ Held(positions, strategy_callback.ticker) > 0 <=>
           /\ transactions # << >>
           /\ transactions[Len(transactions)].action = "BUY_STOCK"

CallsOnlyOnCrossing ==
    (Crossover /\ CallbackStep) =>
      /\ last'.op = "buy_stock" =>
           /\ GoldenCross(day)
           /\ Held(positions, strategy_callback.ticker) = 0
      /\ last'.op = "sell_stock" =>
           /\ DeathCross(day)
           /\ Held(positions, strategy_callback.ticker) > 0
           /\ Held(positions', strategy_callback.ticker) = 0
      /\ last'.op # "none" =>
           /\ last'.ok
           /\ Len(transactions') = Len(transactions) + 1
           /\ transactions'[Len(transactions')].date = day
      /\ last'.op = "none" => transactions' = transactions
      /\ (~GoldenCross(day) /\ ~DeathCross(day)) => last'.op = "none"

\* C33: under the SMA and EMA crossover strategies a BUY_STOCK occurs only
\* on a day of a golden cross (previous short <= previous long, current
\* short > current long) while no position is held, a SELL_STOCK only on a
\* day of a death cross (previous short >= previous long, current short <
\* current long) while a position is held, and it sells the whole position;
\* a day without a crossing has no Executor call, so the log alternates
\* buys and sells, starting with a buy.
C33_CrossoverTrades == []CrossoverLogAlternates /\ [][CallsOnlyOnCrossing]_vars

\* C33 witness: the EMA strategy has bought, sold and bought again.
C33_Witness ==
    /\ strategy_callback.name = "ema_crossover"
    /\ Len(transactions) = 3
    /\ transactions[1].action = "BUY_STOCK"
    /\ transactions[2].action = "SELL_STOCK"
    /\ transactions[3].action = "BUY_STOCK"
    /\ pc = "snapshot"
    /\ last.op = "buy_stock"

Adaptive == strategy_callback.name = "adaptive_ma"

\* the regime of a date and the days of confirmation it asks for
HighAt(d) == high_volatility(RowsAt(d), strategy_callback.volatility_threshold)
ConfirmationAt(d) == IF HighAt(d) THEN 3 ELSE 1

Above(d) == Evaluated(d) /\ Greater(ShortAt(d), LongAt(d))
Below(d) == Evaluated(d) /\ Less(ShortAt(d), LongAt(d))

\* short MA > long MA on the date and on the n - 1 trading dates before it
AboveFor(d, n) == \A k \in 0..(n - 1) : Above(d - k)
BelowFor(d, n) == \A k \in 0..(n - 1) : Below(d - k)

AdaptiveLogConfirmed ==
    Adaptive =>
      \A i \in DOMAIN transactions :
        /\ transactions[i].action = "BUY_STOCK" =>
             AboveFor(transactions[i].date, ConfirmationAt(transactions[i].date))
        /\ transactions[i].action = "SELL_STOCK" =>
             BelowFor(transactions[i].date, ConfirmationAt(transactions[i].date))

AdaptiveCallsConfirmed ==
    (Adaptive /\ CallbackStep) =>
      /\ last'.op = "buy_stock" => AboveFor(day, ConfirmationAt(day))
      /\ last'.op = "sell_stock" => BelowFor(day, ConfirmationAt(day))
      /\ last'.op \in {"none", "buy_stock", "sell_stock"}
      /\ ( /\ Evaluated(day)
           /\ ~(Above(day) /\ ~strategy_callback.state.position_entered)
           /\ ~(Below(day) /\ strategy_callback.state.position_entered) )
           => strategy_callback'.state.confirmation_days = 0

\* C34: under the adaptive strategy a buy (a sell) is made on a day only if
\* short MA > long MA (short MA < long MA) held on that day and on the N - 1
\* evaluated days before it, N being 3 when the standard deviation of the
\* last 20 returns of that day exceeds the threshold and 1 otherwise; an
\* evaluated day on which the confirming condition does not hold leaves the
\* confirmation count at 0.
C34_AdaptiveConfirmation == []AdaptiveLogConfirmed /\ [][AdaptiveCallsConfirmed]_vars

\* C34 witness: a sale in the high-volatility regime, after a purchase in it
C34_Witness ==
    /\ Adaptive
    /\ pc = "snapshot"
    /\ last.op = "sell_stock"
    /\ HighAt(day)
    /\ Len(transactions) = 2
    /\ HighAt(transactions[1].date)
    /\ strategy_callback.state.confirmation_days = 0

\* a purchase in the low-volatility regime on twenty returns or more
LowRegimePurchase ==
    /\ Adaptive
    /\ pc = "snapshot"
    /\ last.op = "buy_stock"
    /\ ~HighAt(day)
    /\ Len(RowsAt(day)) > ReturnsWindow

MovingAverages ==
    strategy_callback.name \in {"sma_crossover", "ema_crossover", "triple_ma", "adaptive_ma"}

Largest(S) == CHOOSE x \in S : \A y \in S : x >= y

\* the longest moving-average period the callback was configured with
LongestPeriod ==
    IF strategy_callback.name = "triple_ma"
    THEN Largest({strategy_callback.fast_window, strategy_callback.medium_window,
                  strategy_callback.slow_window})
    ELSE Largest({strategy_callback.short_window, strategy_callback.long_window})

\* the observations of the price history cut at the date
Observations(d) == Len(RowsAt(d))

\* C35: no moving-average strategy makes an Executor call on a day whose
\* price history holds fewer observations than its longest configured
\* period, and the SMA, EMA and adaptive strategies make none on the first
\* day that has that many either.
C35_NoCallBeforeHistory ==
    (MovingAverages /\ pc = "snapshot" /\ last.op # "none") =>
      /\ Observations(day) >= LongestPeriod
      /\ strategy_callback.name # "triple_ma" =>
           \E e \in trading_dates : e < day /\ Observations(e) >= LongestPeriod

\* the same for the callbacks whose windows are given in ascending order
OrderedWindowsWaitForHistory ==
    ( /\ strategy_callback.name # "triple_ma" =>
           strategy_callback.short_window <= strategy_callback.long_window
      /\ strategy_callback.name = "triple_ma" =>
           /\ strategy_callback.fast_window <= strategy_callback.medium_window
           /\ strategy_callback.medium_window <= strategy_callback.slow_window )
      => C35_NoCallBeforeHistory

====
